---- MODULE Spec2Model ----
(***************************************************************************)
(* Model of scripts/telegram-bot.py: the JSONL transcript store (class     *)
(* Session), the handlers that take the per-key flock (dispatch,           *)
(* handle_callback_query, _handle_webhook_event), the scheduler thread     *)
(* (_cron_loop) and its maintenance action (_run_maintenance), and the     *)
(* agent loop (agent_respond, _compact_session, _filter_tools), the        *)
(* calendar matcher (_cron_matches) and the provider client (MCPClient,    *)
(* MCPManager).                                                            *)
(*                                                                         *)
(* Eight specifications share the variables: SpecStore (the operations of  *)
(* one Session), Spec (the threads of the process), SpecRespond (one call  *)
(* of agent_respond, request by request and tool call by tool call),       *)
(* SpecShutdown (that call while _running may be cleared), SpecMatch (one  *)
(* call of _cron_matches), SpecSched (the loop of _cron_loop against the   *)
(* wall clock), SpecMcp (MCPManager.call_tool on one MCPClient and its     *)
(* subprocess) and SpecRegistry (start_all, get_openai_tools and call_tool *)
(* over two configured servers).                                           *)
(***************************************************************************)
EXTENDS Integers, Sequences, FiniteSets, TLC

VARIABLES
    present,      \* present[k]: the transcript file <key>.jsonl exists (path.is_file())
    transcript,   \* transcript[k]: the lines of <key>.jsonl, oldest first
    now,          \* wall clock, in days
    cfg,          \* CFG["context"]: [max_messages, prune_tool_results_after]
    op,           \* the Session operation performed last (store specification)
    result,       \* value returned by load_context() when op = "load", else <<>>
    count,        \* value returned by message_count() when op = "count", else 0
    nloads,       \* consecutive load_context() calls since the last write
    mtime,        \* mtime[k]: st_mtime of <key>.jsonl, in days
    lock_ino,     \* lock_ino[k]: inode of the file <key>.lock, 0 when there is none
    next_ino,     \* the inode the next created lock file gets
    lock_fd,      \* lock_fd[t]: inode flock'ed through Session._lock_fd of thread t, 0 = None
    lock_fh,      \* inode flock'ed through lock_fh of _trim_session_entries, 0 = none
    pc,           \* pc[t]: where thread t stands
    iteration,    \* iteration[t]: rounds agent_respond of thread t has completed
    inputs,       \* inbound inputs and generic job firings handled so far
    maint_runs,   \* maintenance runs started so far
    glob_todo,    \* _run_maintenance: files of the glob not visited yet
    total_size,   \* _run_maintenance: total_size
    session_files,\* _run_maintenance: session_files, as a set of [age, size, f]
    trim_path,    \* _trim_session_entries: the file being trimmed, "" when none
    trim_lines,   \* _trim_session_entries: lines, as read by fh.readlines()
    r_pc,         \* respond specification: where the one agent_respond call stands
    allowed_tool_names, \* agent_respond: [given, names]; given = FALSE is None
    active_tools, \* agent_respond: names of the catalog handed to _ds_request
    svc,          \* what the reasoning service asks for when it requests tools
    r_iteration,  \* agent_respond: iteration
    tc_idx,       \* agent_respond: position in "for tc in msg['tool_calls']", 0 outside
    ds_calls,     \* _ds_request calls made by the loop of agent_respond
    answer,       \* agent_respond: what the last _ds_request of the loop gave
    exec_log,     \* executors run so far: [id, name, via], via "local" or "mcp"
    ret,          \* value returned by agent_respond, NoneText while it has not returned
    summary,      \* _compact_session: outcome of the summary request
    memory_writes,\* entries tool_write_memory has written during compaction
    c_in,         \* matcher specification: how the input was drawn, [kind, f, lo, hi]
    c_expr,       \* _cron_matches: expression, as the sequence of its characters
    c_dt,         \* _cron_matches: dt, [minute, hour, day, month, weekday]
    c_done,       \* _cron_matches has returned
    c_match,      \* value returned by _cron_matches, FALSE while it has not returned
    wall,         \* scheduler specification: datetime.now(), in seconds since it started
    running,      \* the global _running
    cron_jobs,    \* CFG["cron_jobs"], each job [id, schedule, action, enabled]
    last_run,     \* _cron_loop: last_run, job id -> minute key, NoKey when absent
    cl_pc,        \* where _cron_loop stands: "top", "jobs", "sleep" or "exited"
    cl_now,       \* _cron_loop: now, as read at the top of the pass
    cl_job,       \* _cron_loop: position in "for job in CFG.get('cron_jobs', [])"
    fired,        \* fired[j]: the firings of job j so far, each [key, raised]
    m_pc,         \* provider specification: m_pc[t], where the call_tool of thread t stands
    m_req,        \* m_req[t]: req_id of the _request thread t is in, 0 before the first
    m_resp,       \* m_resp[t]: what the last _request of thread t returned
    m_ret,        \* m_ret[t]: what the last MCPManager.call_tool of thread t returned
    m_restarts,   \* m_restarts[t]: client.restart() calls of the current call_tool
    m_alive,      \* m_alive[t]: client.alive as the current call_tool read it
    m_forwarded,  \* m_forwarded[t]: the current call_tool reached client.call_tool
    m_lock,       \* MCPClient._lock: the thread holding it, "" when free
    m_blocked,    \* the subprocess whose stdout.readline() the lock holder waits in, 0 = none
    request_id,   \* MCPClient._request_id
    proc,         \* MCPClient._proc: the subprocess, numbered in order of creation, 0 = None
    gen,          \* subprocesses created so far
    spawned,      \* the subprocesses created by Popen that no stop() has terminated
    p_exited,     \* the subprocess _proc has exited (poll() is not None)
    pipe,         \* lines the subprocess wrote to its stdout that no read has fetched
    rbuf,         \* lines fetched into the buffer of _proc.stdout and not yet returned
    wire,         \* messages written to the stdin of the subprocess _proc, [method, id]
    init_ok,      \* "initialize" was answered without error on the subprocess _proc
    emitted,      \* lines the subprocesses have written so far
    m_calls,      \* calls of MCPManager.call_tool begun so far
    g_servers,    \* registry specification: CFG["mcp_servers"], each [name, cfg], in file order
    g_idx,        \* start_all: position in "for name, srv_cfg in servers.items()"
    g_pc,         \* start_all: "next", inside start() "init" or "discover", "done" once returned
    g_clients,    \* MCPManager._clients: the registered names, in order of insertion
    g_proc,       \* g_proc[n]: _proc of the client named n, "none", "live" or "exited"
    g_tools,      \* g_tools[n]: tools of the client named n, as tool names
    g_ret,        \* g_ret[n]: what the last start() of the client named n returned: "ok",
                  \* "failed", or "none" before it returns
    g_lock,       \* g_lock[n]: the thread holding _lock of the client named n, "" when free
    g_call,       \* g_call[t]: the call_tool of thread t, [at, pick, server, tool, ret]
    g_sent,       \* g_sent[n]: tool name of the last tools/call written to the client named n
    g_calls       \* calls of MCPManager.call_tool begun so far (registry specification)

fsVars == <<present, transcript, mtime, lock_ino, next_ino>>
storeVars == <<op, result, count, nloads>>
procVars == <<lock_fd, lock_fh, pc, iteration, inputs, maint_runs, glob_todo, total_size,
              session_files, trim_path, trim_lines>>
respVars == <<r_pc, allowed_tool_names, active_tools, svc, r_iteration, tc_idx, ds_calls,
              answer, exec_log, ret, summary, memory_writes>>
cronVars == <<c_in, c_expr, c_dt, c_done, c_match>>
schedVars == <<wall, running, cron_jobs, last_run, cl_pc, cl_now, cl_job, fired>>
mcpVars == <<m_pc, m_req, m_resp, m_ret, m_restarts, m_alive, m_forwarded, m_lock, m_blocked,
             request_id, proc, gen, spawned, p_exited, pipe, rbuf, wire, init_ok, emitted,
             m_calls>>
regVars == <<g_servers, g_idx, g_pc, g_clients, g_proc, g_tools, g_ret, g_lock, g_call, g_sent,
             g_calls>>
extVars == <<cronVars, schedVars, mcpVars, regVars>>
coreVars == <<fsVars, now, cfg, storeVars, procVars, respVars>>
vars == <<coreVars, extVars>>
matchOthers == <<coreVars, schedVars, mcpVars, regVars>>
schedOthers == <<coreVars, cronVars, mcpVars, regVars>>
mcpOthers == <<coreVars, cronVars, schedVars, regVars>>
regOthers == <<coreVars, cronVars, schedVars, mcpVars>>

----------------------------------------------------------------------------
(* Bounds of the model *)

MaxLines == 3      \* lines a transcript file may hold
MaxInitLen == 2    \* lines of the transcript file the store starts from
MaxPolicy == 2     \* largest max_messages / prune_tool_results_after drawn
MaxNow == 31       \* the clock stops advancing here
MaxInputs == 2     \* inbound inputs and generic job firings handled
MaxMaint == 2      \* maintenance runs
MaxEvents == 3     \* inputs, job firings and maintenance runs together
MaxRequested == 2  \* respond specification: tool calls in one service response
MaxToolCalls == 1  \* tool calls the reasoning service requests in one round
CfgMaxEntries == 3 \* session.maintenance.max_entries of the modelled configuration
CfgMaxDisk == 4    \* session.maintenance.max_disk_mb, counted in stored lines

(* Program constants *)

PruneAfterDays == 30      \* session.maintenance.prune_after_days
max_iterations == 5       \* agent_respond: max_iterations

TruncThreshold == 100     \* len(content) > 100
PlaceholderLen == 11      \* len("[truncated]")

----------------------------------------------------------------------------
(* one step of the clock: long enough for an untouched file to become old  *)
TickDays == PruneAfterDays + 1

----------------------------------------------------------------------------
(* Session keys: Session("telegram_dm_<chat>"), Session("webhook_github"),  *)
(* Session("cron_<job>")                                                    *)

K_TG == "telegram_dm"
K_WH == "webhook_github"
K_CRON == "cron_job"
Keys == {K_TG, K_WH, K_CRON}

----------------------------------------------------------------------------
(* Lines of a transcript file.  kind "json" is a line json.loads() turns    *)
(* into a dict; "junk" raises JSONDecodeError; "blank" is empty after       *)
(* strip().  role is "user", "assistant", "tool" or "system", and "" stands *)
(* for a dict without the key "role".  content is a named text whose length *)
(* is ContentLen.  tool_calls is the list of [id, name] an assistant record *)
(* carries (<<>>: no such key), tool_call_id the id a tool record answers   *)
(* (0: no such key).                                                        *)

ContentLen(c) ==
    CASE c = "short" -> 5
      [] c = "exact" -> 100
      [] c = "long" -> 120
      [] c = "[truncated]" -> PlaceholderLen
      [] c = "" -> 0
      [] c = "ERROR: tool is not allowed in this context" -> 42
      [] c = "ERROR: exc" -> 10
      [] c = "Unknown tool" -> 12

Line(kind, marker, role, content, ts, calls, id) ==
    [kind |-> kind, marker |-> marker, role |-> role, content |-> content, ts |-> ts,
     tool_calls |-> calls, tool_call_id |-> id]

Entry(role, content, ts) == Line("json", FALSE, role, content, ts, <<>>, 0)

MarkerEntry(ts) == Line("json", TRUE, "", "short", ts, <<>>, 0)

JunkLine == Line("junk", FALSE, "", "short", 0, <<>>, 0)
BlankLine == Line("blank", FALSE, "", "short", 0, <<>>, 0)

(* a message handed to the reasoning service: the entry without its         *)
(* "_"-prefixed keys (_ts, _compact_marker)                                 *)
StripInternal(e) ==
    [role |-> e.role, content |-> e.content,
     tool_calls |-> e.tool_calls, tool_call_id |-> e.tool_call_id]

----------------------------------------------------------------------------
(* Session.load_context.  Of CFG["context"] it reads max_messages and       *)
(* prune_tool_results_after (the number of most recent messages kept        *)
(* untruncated); the key keep_recent is not read.                           *)

(* variant: the marker position taken from the raw line number *)
RECURSIVE ScanEntriesRawIndex(_, _, _, _)
ScanEntriesRawIndex(lines, i, entries, start_idx) ==
    IF i > Len(lines) THEN [entries |-> entries, start_idx |-> start_idx]
    ELSE IF lines[i].kind # "json" THEN ScanEntriesRawIndex(lines, i + 1, entries, start_idx)
    ELSE ScanEntriesRawIndex(lines, i + 1, Append(entries, lines[i]),
                             IF lines[i].marker THEN i ELSE start_idx)

(* the read loop: entries parsed so far and the index after the last marker *)
RECURSIVE ScanEntries(_, _, _, _)
ScanEntries(lines, i, entries, start_idx) ==
    IF i > Len(lines) THEN [entries |-> entries, start_idx |-> start_idx]
    ELSE IF lines[i].kind # "json" THEN ScanEntries(lines, i + 1, entries, start_idx)
    ELSE LET es == Append(entries, lines[i])
         IN  ScanEntries(lines, i + 1, es,
                         IF lines[i].marker THEN Len(es) ELSE start_idx)

(* variant: nothing before the marker is dropped *)
PyDropNothing(s, n) == s

(* s[n:] of Python for n >= 0 *)
PyDrop(s, n) == IF n >= Len(s) THEN <<>> ELSE SubSeq(s, n + 1, Len(s))

(* s[-n:] of Python for n >= 0; s[-0:] is s[0:], the whole list *)
PyTail(s, n) ==
    IF n = 0 THEN s
    ELSE IF n >= Len(s) THEN s
    ELSE SubSeq(s, Len(s) - n + 1, Len(s))

RECURSIVE ToMessages(_)
ToMessages(entries) ==
    IF entries = <<>> THEN <<>>
    ELSE LET msg == StripInternal(Head(entries))
         IN  IF msg.role # "" THEN <<msg>> \o ToMessages(Tail(entries))
             ELSE ToMessages(Tail(entries))

TrimToMax(messages, max_msgs) ==
    IF Len(messages) > max_msgs THEN PyTail(messages, max_msgs) ELSE messages

(* variant: the threshold itself counts as exceeding *)
OversizedInclusive(content) == ContentLen(content) >= TruncThreshold

Oversized(content) == ContentLen(content) > TruncThreshold

PruneToolResults(messages, prune_after) ==
    IF prune_after > 0 /\ Len(messages) > prune_after
    THEN LET cutoff == Len(messages) - prune_after
         IN  [i \in 1..Len(messages) |->
                IF i <= cutoff /\ messages[i].role = "tool" /\ Oversized(messages[i].content)
                THEN [messages[i] EXCEPT !.content = "[truncated]"]
                ELSE messages[i]]
    ELSE messages

load_context(is_file, lines, config) ==
    IF ~is_file THEN <<>>
    ELSE LET scan == ScanEntries(lines, 1, <<>>, 0)
             entries == IF scan.start_idx > 0
                        THEN PyDrop(scan.entries, scan.start_idx)
                        ELSE scan.entries
             messages == ToMessages(entries)
         IN  PruneToolResults(TrimToMax(messages, config.max_messages),
                              config.prune_tool_results_after)

----------------------------------------------------------------------------
(* Session.message_count *)

RECURSIVE CountLoop(_, _, _)
CountLoop(lines, i, cnt) ==
    IF i > Len(lines) THEN cnt
    ELSE IF lines[i].kind # "json" THEN CountLoop(lines, i + 1, cnt)
    ELSE IF lines[i].marker THEN CountLoop(lines, i + 1, 0)
    ELSE IF lines[i].role # "" THEN CountLoop(lines, i + 1, cnt + 1)
    ELSE CountLoop(lines, i + 1, cnt)

(* variant: the count is not reset at a marker *)
message_count_no_reset(is_file, lines) ==
    IF ~is_file THEN 0
    ELSE Len(SelectSeq(lines, LAMBDA e : e.kind = "json" /\ ~e.marker /\ e.role # ""))

message_count(is_file, lines) ==
    IF ~is_file THEN 0 ELSE CountLoop(lines, 1, 0)

----------------------------------------------------------------------------
(* Session.append / Session.clear: open(path, "a") and write one line       *)

(* variant: the file opened with "w" *)
AppendLineTruncating(lines, entry) == <<entry>>

AppendLine(lines, entry) == Append(lines, entry)

RECURSIVE AppendLines(_, _)
AppendLines(lines, entries) ==
    IF entries = <<>> THEN lines
    ELSE AppendLines(AppendLine(lines, Head(entries)), Tail(entries))

(* the calls session.append(e) for e in entries, made in a row by one thread *)
FileAppend(k, entries) ==
    /\ transcript' = [transcript EXCEPT ![k] = AppendLines(transcript[k], entries)]
    /\ present' = [present EXCEPT ![k] = TRUE]
    /\ mtime' = [mtime EXCEPT ![k] = now]

----------------------------------------------------------------------------
(* Threads of the process: the Telegram poller (main), the threads started  *)
(* by WebhookHandler.do_POST, and the scheduler thread (_cron_loop)         *)

Threads == {"main", "wh1", "wh2", "cron"}
WebhookThreads == {"wh1", "wh2"}

SessionKey(t) ==
    CASE t = "main" -> K_TG
      [] t \in WebhookThreads -> K_WH
      [] t = "cron" -> K_CRON

ProcInit ==
    /\ lock_fd = [t \in Threads |-> 0]
    /\ lock_fh = 0
    /\ pc = [t \in Threads |-> "idle"]
    /\ iteration = [t \in Threads |-> 0]
    /\ inputs = 0
    /\ maint_runs = 0
    /\ glob_todo = {}
    /\ total_size = 0
    /\ session_files = {}
    /\ trim_path = ""
    /\ trim_lines = <<>>

(* Python's None where a text is expected *)
NoneText == "<None>"

(* no request of the loop was made yet *)
NoAnswer == "<no request>"

NoSvc == [calls |-> <<>>, say |-> NoneText]
NoSummary == [fails |-> FALSE, calls |-> <<>>, content |-> NoneText, fallback |-> "ok"]

(* no agent_respond call of the respond specification is under way *)
RespIdle ==
    /\ r_pc = "idle"
    /\ allowed_tool_names = [given |-> FALSE, names |-> {}]
    /\ active_tools = {}
    /\ svc = NoSvc
    /\ r_iteration = 0
    /\ tc_idx = 0
    /\ ds_calls = 0
    /\ answer = NoAnswer
    /\ exec_log = <<>>
    /\ ret = NoneText
    /\ summary = NoSummary
    /\ memory_writes = 0

(* no call of the calendar matcher is under way *)
CronIdle ==
    /\ c_in = [kind |-> "none", f |-> 0, lo |-> 0, hi |-> 0]
    /\ c_expr = <<>>
    /\ c_dt = [minute |-> 0, hour |-> 0, day |-> 1, month |-> 1, weekday |-> 0]
    /\ c_done = FALSE
    /\ c_match = FALSE

(* the scheduler thread has not been started *)
SchedIdle ==
    /\ wall = 0
    /\ running = TRUE
    /\ cron_jobs = <<>>
    /\ last_run = <<>>
    /\ cl_pc = "top"
    /\ cl_now = 0
    /\ cl_job = 0
    /\ fired = <<>>

(* the threads that run agent_respond with the whole catalog *)
McpCallers == {"main", "cron"}

(* _request returned None, or has not been called *)
NoReply == [id |-> -2, err |-> FALSE]

NoRet == "<no call>"

(* no call_tool is under way and no provider is configured *)
McpIdle ==
    /\ m_pc = [t \in McpCallers |-> "idle"]
    /\ m_req = [t \in McpCallers |-> 0]
    /\ m_resp = [t \in McpCallers |-> NoReply]
    /\ m_ret = [t \in McpCallers |-> NoRet]
    /\ m_restarts = [t \in McpCallers |-> 0]
    /\ m_alive = [t \in McpCallers |-> "unread"]
    /\ m_forwarded = [t \in McpCallers |-> FALSE]
    /\ m_lock = ""
    /\ m_blocked = 0
    /\ request_id = 0
    /\ proc = 0
    /\ gen = 0
    /\ spawned = {}
    /\ p_exited = FALSE
    /\ pipe = <<>>
    /\ rbuf = <<>>
    /\ wire = <<>>
    /\ init_ok = FALSE
    /\ emitted = 0
    /\ m_calls = 0

(* the names of the registry specification: servers and the tools they    *)
(* report, as sequences of characters                                      *)
NameA == <<"a">>
NameAB == <<"a", "_", "b">>
NameB == <<"b">>
RegServerNames == {NameA, NameAB, NameB}

ToolC == <<"c">>
ToolBC == <<"b", "_", "c">>

NoPick == [name |-> <<>>, server |-> <<>>, tool |-> <<>>]
IdleCall == [at |-> "idle", pick |-> NoPick, server |-> <<>>, tool |-> <<>>, ret |-> NoRet]

(* no server is configured and start_all has not run *)
RegIdle ==
    /\ g_servers = <<>>
    /\ g_idx = 1
    /\ g_pc = "next"
    /\ g_clients = <<>>
    /\ g_proc = [n \in RegServerNames |-> "none"]
    /\ g_tools = [n \in RegServerNames |-> <<>>]
    /\ g_ret = [n \in RegServerNames |-> "none"]
    /\ g_lock = [n \in RegServerNames |-> ""]
    /\ g_call = [t \in McpCallers |-> IdleCall]
    /\ g_sent = [n \in RegServerNames |-> <<>>]
    /\ g_calls = 0

ExtIdle == CronIdle /\ SchedIdle /\ McpIdle /\ RegIdle

----------------------------------------------------------------------------
(* Store specification: one transcript, operated by a single caller         *)

InitAlphabet ==
    { Entry("user", "long", 0), Entry("assistant", "short", 0),
      Entry("tool", "long", 0), Entry("tool", "exact", 0),
      MarkerEntry(0), JunkLine, BlankLine }

AppendAlphabet ==
    { <<"user", "long">>, <<"assistant", "short">>,
      <<"tool", "long">>, <<"tool", "exact">> }

InitLines == UNION { [1..n -> InitAlphabet] : n \in 0..MaxInitLen }

Policies == [max_messages : 0..MaxPolicy, prune_tool_results_after : 0..MaxPolicy]

StoreInit ==
    /\ \E ls \in InitLines :
          /\ transcript = [k \in Keys |-> IF k = K_TG THEN ls ELSE <<>>]
          /\ present = [k \in Keys |-> k = K_TG /\ ls # <<>>]
    /\ now = 0
    /\ cfg \in Policies
    /\ op = "init"
    /\ result = <<>>
    /\ count = 0
    /\ nloads = 0
    /\ mtime = [k \in Keys |-> 0]
    /\ lock_ino = [k \in Keys |-> 0]
    /\ next_ino = 1
    /\ ProcInit
    /\ RespIdle
    /\ ExtIdle

StoreAppend ==
    /\ Len(transcript[K_TG]) < MaxLines
    /\ \E rc \in AppendAlphabet : FileAppend(K_TG, <<Entry(rc[1], rc[2], now)>>)
    /\ op' = "append"
    /\ nloads' = 0
    /\ result' = <<>>
    /\ count' = 0
    /\ UNCHANGED <<now, cfg, extVars, lock_ino, next_ino, procVars, respVars>>

StoreClear ==
    /\ Len(transcript[K_TG]) < MaxLines
    /\ FileAppend(K_TG, <<MarkerEntry(now)>>)
    /\ op' = "clear"
    /\ nloads' = 0
    /\ result' = <<>>
    /\ count' = 0
    /\ UNCHANGED <<now, cfg, extVars, lock_ino, next_ino, procVars, respVars>>

(* variant: the pruned messages are written back to the file *)
StoreLoadContextWriteBack ==
    /\ nloads < 2
    /\ result' = load_context(present[K_TG], transcript[K_TG], cfg)
    /\ transcript' = [transcript EXCEPT ![K_TG] =
            [i \in 1..Len(result') |-> Entry(result'[i].role, result'[i].content, now)]]
    /\ op' = "load"
    /\ nloads' = nloads + 1
    /\ count' = 0
    /\ UNCHANGED <<present, mtime, lock_ino, next_ino, now, cfg, extVars, procVars, respVars>>

StoreLoadContext ==
    /\ nloads < 2
    /\ result' = load_context(present[K_TG], transcript[K_TG], cfg)
    /\ op' = "load"
    /\ nloads' = nloads + 1
    /\ count' = 0
    /\ UNCHANGED <<fsVars, now, cfg, extVars, procVars, respVars>>

StoreMessageCount ==
    /\ count' = message_count(present[K_TG], transcript[K_TG])
    /\ op' = "count"
    /\ result' = <<>>
    /\ nloads' = 0
    /\ UNCHANGED <<fsVars, now, cfg, extVars, procVars, respVars>>

StoreTick ==
    /\ now + TickDays <= MaxNow
    /\ now' = now + TickDays
    /\ op' = "tick"
    /\ result' = <<>>
    /\ count' = 0
    /\ nloads' = 0
    /\ UNCHANGED <<fsVars, cfg, extVars, procVars, respVars>>

StoreNext ==
    \/ StoreAppend
    \/ StoreClear
    \/ StoreLoadContext
    \/ StoreMessageCount
    \/ StoreTick

SpecStore == StoreInit /\ [][StoreNext]_vars

----------------------------------------------------------------------------
(* Session.acquire_lock / Session.release_lock.  flock() locks belong to    *)
(* the open file description, so two Session objects of one process         *)
(* exclude each other as long as they opened the same inode.                *)

InodeHeld(i) == (\E t \in Threads : lock_fd[t] = i) \/ lock_fh = i

(* open(lock_path, "w") creates the file when the path does not exist *)
OpenLockFile(k) ==
    /\ lock_ino' = [lock_ino EXCEPT ![k] = IF @ = 0 THEN next_ino ELSE @]
    /\ next_ino' = IF lock_ino[k] = 0 THEN next_ino + 1 ELSE next_ino

(* fcntl.flock(fd, LOCK_EX | LOCK_NB) succeeds iff nobody holds the inode *)
FlockGranted(i) == ~InodeHeld(i)

acquire_lock(t, k, ok) ==
    /\ OpenLockFile(k)
    /\ ok = FlockGranted(lock_ino'[k])
    /\ lock_fd' = [lock_fd EXCEPT ![t] = IF ok THEN lock_ino'[k] ELSE 0]

release_lock(t) == lock_fd' = [lock_fd EXCEPT ![t] = 0]

----------------------------------------------------------------------------
(* agent_respond.  The texts are not modelled: a user, system or assistant  *)
(* record has a short content, a tool result a long one.                    *)

SpecCfg == [max_messages |-> 2, prune_tool_results_after |-> 1]

UserEntry == Entry("user", "short", now)
SystemEntry == Entry("system", "short", now)
AssistantEntry == Entry("assistant", "short", now)
ToolEntry == Entry("tool", "long", now)

(* session.append() calls by thread t; nothing is written for no entries *)
SessionAppend(t, entries) ==
    IF entries = <<>>
    THEN UNCHANGED <<present, transcript, mtime>>
    ELSE FileAppend(SessionKey(t), entries)

(* the end of the handler that called agent_respond: its finally clause *)
Finish(t) ==
    /\ release_lock(t)
    /\ pc' = [pc EXCEPT ![t] = "idle"]
    /\ iteration' = [iteration EXCEPT ![t] = 0]

(* agent_respond up to the compaction test: append the input, then          *)
(* session.message_count() > max_msgs                                       *)
RespondBegin(t, before) ==
    /\ SessionAppend(t, before \o <<UserEntry>>)
    /\ pc' = [pc EXCEPT ![t] =
                IF message_count(TRUE, transcript'[SessionKey(t)]) > cfg.max_messages
                THEN "compact" ELSE "round"]
    /\ iteration' = [iteration EXCEPT ![t] = 0]

(* _compact_session: the marker is written when the context is empty or    *)
(* the memory flush succeeded                                               *)
CompactSession(t) ==
    /\ pc[t] = "compact"
    /\ LET k == SessionKey(t)
           messages == load_context(present[k], transcript[k], cfg)
       IN  \E memory_flush_ok \in BOOLEAN :
              SessionAppend(t, IF messages = <<>> \/ memory_flush_ok
                               THEN <<MarkerEntry(now)>> ELSE <<>>)
    /\ pc' = [pc EXCEPT ![t] = "round"]
    /\ UNCHANGED <<lock_ino, next_ino, now, cfg, extVars, storeVars, respVars, lock_fd, lock_fh, iteration,
                   inputs, maint_runs, glob_todo, total_size, session_files, trim_path, trim_lines>>

RECURSIVE Repeat(_, _)
Repeat(e, n) == IF n = 0 THEN <<>> ELSE <<e>> \o Repeat(e, n - 1)

(* one iteration of the loop of agent_respond *)
RespondRound(t) ==
    /\ pc[t] = "round"
    /\ iteration[t] < max_iterations
    /\ \E outcome \in {"error", "tools", "final"} :
          IF outcome = "tools"
          THEN /\ \E n \in 1..MaxToolCalls :
                     SessionAppend(t, <<AssistantEntry>> \o Repeat(ToolEntry, n))
               /\ iteration' = [iteration EXCEPT ![t] = @ + 1]
               /\ UNCHANGED <<pc, lock_fd>>
          ELSE /\ SessionAppend(t, <<AssistantEntry>>)
               /\ Finish(t)
    /\ UNCHANGED <<lock_ino, next_ino, now, cfg, extVars, storeVars, respVars, lock_fh,
                   inputs, maint_runs, glob_todo, total_size, session_files, trim_path, trim_lines>>

(* the loop ran max_iterations times *)
RespondExhausted(t) ==
    /\ pc[t] = "round"
    /\ iteration[t] = max_iterations
    /\ SessionAppend(t, <<AssistantEntry>>)
    /\ Finish(t)
    /\ UNCHANGED <<lock_ino, next_ino, now, cfg, extVars, storeVars, respVars, lock_fh,
                   inputs, maint_runs, glob_todo, total_size, session_files, trim_path, trim_lines>>

----------------------------------------------------------------------------
(* dispatch and handle_callback_query, both run by the poller thread *)

(* session = _get_session(chat_id); if not session.acquire_lock(): send the *)
(* "already processing" message and return                                  *)
TryAcquire(t, body) ==
    \E ok \in BOOLEAN :
       /\ acquire_lock(t, SessionKey(t), ok)
       /\ pc' = [pc EXCEPT ![t] = IF ok THEN body ELSE "idle"]

DispatchAcquire ==
    /\ pc["main"] = "idle"
    /\ inputs < MaxInputs /\ inputs + maint_runs < MaxEvents
    /\ inputs' = inputs + 1
    /\ TryAcquire("main", "dispatch")
    /\ UNCHANGED <<present, transcript, mtime, now, cfg, extVars, storeVars, respVars, lock_fh, iteration,
                   maint_runs, glob_todo, total_size, session_files, trim_path, trim_lines>>

CallbackAcquire ==
    /\ pc["main"] = "idle"
    /\ inputs < MaxInputs /\ inputs + maint_runs < MaxEvents
    /\ inputs' = inputs + 1
    /\ TryAcquire("main", "callback")
    /\ UNCHANGED <<present, transcript, mtime, now, cfg, extVars, storeVars, respVars, lock_fh, iteration,
                   maint_runs, glob_todo, total_size, session_files, trim_path, trim_lines>>

(* last_message_time() > 0: some stored record has a role *)
HasMessage(k) == present[k] /\ \E i \in 1..Len(transcript[k]) :
                                  transcript[k][i].kind = "json" /\ transcript[k][i].role # ""

(* _check_session_reset, then the route taken by the text *)
DispatchBody ==
    /\ pc["main"] = "dispatch"
    /\ \E was_reset \in BOOLEAN, route \in {"agent", "clear", "other"} :
          LET reset == IF was_reset THEN <<MarkerEntry(now)>> ELSE <<>>
          IN  /\ was_reset => HasMessage(K_TG)
              /\ CASE route = "agent" ->
                        /\ RespondBegin("main", reset)
                        /\ UNCHANGED lock_fd
                   [] route = "clear" ->
                        /\ SessionAppend("main", reset \o <<MarkerEntry(now)>>)
                        /\ Finish("main")
                   [] route = "other" ->
                        /\ SessionAppend("main", reset)
                        /\ Finish("main")
    /\ UNCHANGED <<lock_ino, next_ino, now, cfg, extVars, storeVars, respVars, lock_fh,
                   inputs, maint_runs, glob_todo, total_size, session_files, trim_path, trim_lines>>

CallbackBody ==
    /\ pc["main"] = "callback"
    /\ \E route \in {"agent", "other"} :
          IF route = "agent"
          THEN /\ RespondBegin("main", <<>>)
               /\ UNCHANGED lock_fd
          ELSE /\ UNCHANGED <<present, transcript, mtime>>
               /\ Finish("main")
    /\ UNCHANGED <<lock_ino, next_ino, now, cfg, extVars, storeVars, respVars, lock_fh,
                   inputs, maint_runs, glob_todo, total_size, session_files, trim_path, trim_lines>>

----------------------------------------------------------------------------
(* _handle_webhook_event, one thread per event *)

(* one round of the loop of _acquire_session_lock_with_timeout *)
WebhookTryLock(t) ==
    /\ pc[t] \in {"idle", "wh_retry"}
    /\ pc[t] = "idle" => (inputs < MaxInputs /\ inputs + maint_runs < MaxEvents)
    /\ inputs' = IF pc[t] = "idle" THEN inputs + 1 ELSE inputs
    /\ UNCHANGED maint_runs
    /\ \E ok \in BOOLEAN, timed_out \in BOOLEAN :
          /\ acquire_lock(t, SessionKey(t), ok)
          /\ ok => ~timed_out
          /\ pc' = [pc EXCEPT ![t] = IF ok THEN "webhook"
                                     ELSE IF timed_out THEN "idle" ELSE "wh_retry"]
    /\ UNCHANGED <<present, transcript, mtime, now, cfg, extVars, storeVars, respVars, lock_fh, iteration,
                   glob_todo, total_size, session_files, trim_path, trim_lines>>

WebhookBody(t) ==
    /\ pc[t] = "webhook"
    /\ RespondBegin(t, <<>>)
    /\ UNCHANGED <<lock_ino, next_ino, now, cfg, extVars, storeVars, respVars, lock_fd, lock_fh,
                   inputs, maint_runs, glob_todo, total_size, session_files, trim_path, trim_lines>>

----------------------------------------------------------------------------
(* _cron_loop: a generic job *)

CronFireJob ==
    /\ pc["cron"] = "idle"
    /\ inputs < MaxInputs /\ inputs + maint_runs < MaxEvents
    /\ inputs' = inputs + 1
    /\ UNCHANGED maint_runs
    /\ RespondBegin("cron", <<SystemEntry>>)
    /\ UNCHANGED <<lock_ino, next_ino, now, cfg, extVars, storeVars, respVars, lock_fd, lock_fh,
                   glob_todo, total_size, session_files, trim_path, trim_lines>>

----------------------------------------------------------------------------
(* _cron_loop: the job "__maintenance__", _run_maintenance *)

Unlink(ks) ==
    /\ present' = [k \in Keys |-> present[k] /\ k \notin ks]
    /\ transcript' = [k \in Keys |-> IF k \in ks THEN <<>> ELSE transcript[k]]
    /\ mtime' = [k \in Keys |-> IF k \in ks THEN 0 ELSE mtime[k]]
    /\ lock_ino' = [k \in Keys |-> IF k \in ks THEN 0 ELSE lock_ino[k]]

CronFireMaintenance ==
    /\ pc["cron"] = "idle"
    /\ maint_runs < MaxMaint /\ inputs + maint_runs < MaxEvents
    /\ maint_runs' = maint_runs + 1
    /\ UNCHANGED inputs
    /\ glob_todo' = {k \in Keys : present[k]}
    /\ total_size' = 0
    /\ session_files' = {}
    /\ pc' = [pc EXCEPT !["cron"] = "maint_glob"]
    /\ UNCHANGED <<fsVars, now, cfg, extVars, storeVars, respVars, lock_fd, lock_fh, iteration, trim_path, trim_lines>>

(* the body of "for f in SESSIONS_DIR.glob('*.jsonl')" up to the call of    *)
(* _trim_session_entries                                                    *)
MaintVisit(k) ==
    /\ pc["cron"] = "maint_glob"
    /\ k \in glob_todo
    /\ LET age_days == now - mtime[k]
           size == Len(transcript[k])
       IN  /\ total_size' = total_size + size
           /\ session_files' = session_files \cup {[age |-> age_days, size |-> size, f |-> k]}
           /\ IF age_days > PruneAfterDays
              THEN /\ Unlink({k})
                   /\ glob_todo' = glob_todo \ {k}
                   /\ UNCHANGED <<pc, trim_path, trim_lines>>
              ELSE IF CfgMaxEntries <= 0 \/ ~present[k]
              THEN /\ glob_todo' = glob_todo \ {k}
                   /\ UNCHANGED <<present, transcript, mtime, lock_ino, pc, trim_path, trim_lines>>
              ELSE /\ trim_path' = k
                   /\ pc' = [pc EXCEPT !["cron"] = "trim_lock"]
                   /\ UNCHANGED <<present, transcript, mtime, lock_ino, glob_todo, trim_lines>>
    /\ UNCHANGED <<next_ino, now, cfg, extVars, storeVars, respVars, lock_fd, lock_fh, iteration, inputs, maint_runs>>

(* _trim_session_entries: open(lock_path, "a+") and the blocking flock *)
MaintTrimLock ==
    /\ pc["cron"] = "trim_lock"
    /\ OpenLockFile(trim_path)
    /\ ~InodeHeld(lock_ino'[trim_path])
    /\ lock_fh' = lock_ino'[trim_path]
    /\ pc' = [pc EXCEPT !["cron"] = "trim_read"]
    /\ UNCHANGED <<present, transcript, mtime, now, cfg, extVars, storeVars, respVars, lock_fd, iteration,
                   inputs, maint_runs, glob_todo, total_size, session_files, trim_path, trim_lines>>

(* the finally clause of _trim_session_entries, and the glob loop goes on *)
TrimReturn ==
    /\ lock_fh' = 0
    /\ glob_todo' = glob_todo \ {trim_path}
    /\ trim_path' = ""
    /\ trim_lines' = <<>>
    /\ pc' = [pc EXCEPT !["cron"] = "maint_glob"]

(* _trim_session_entries: lines = fh.readlines(); return when there are at *)
(* most max_entries of them (a file that is gone raises, which is logged)  *)
MaintTrimRead ==
    /\ pc["cron"] = "trim_read"
    /\ LET lines == transcript[trim_path]
       IN  IF present[trim_path] /\ Len(lines) > CfgMaxEntries
           THEN /\ trim_lines' = lines
                /\ pc' = [pc EXCEPT !["cron"] = "trim_replace"]
                /\ UNCHANGED <<lock_fh, glob_todo, trim_path>>
           ELSE TrimReturn
    /\ UNCHANGED <<fsVars, now, cfg, extVars, storeVars, respVars, lock_fd, iteration,
                   inputs, maint_runs, total_size, session_files>>

(* _trim_session_entries: trimmed = lines[-max_entries:] goes to the       *)
(* temporary file, which os.replace() puts in the place of the transcript  *)
MaintTrimReplace ==
    /\ pc["cron"] = "trim_replace"
    /\ transcript' = [transcript EXCEPT ![trim_path] = PyTail(trim_lines, CfgMaxEntries)]
    /\ present' = [present EXCEPT ![trim_path] = TRUE]
    /\ mtime' = [mtime EXCEPT ![trim_path] = now]
    /\ TrimReturn
    /\ UNCHANGED <<lock_ino, next_ino, now, cfg, extVars, storeVars, respVars, lock_fd, iteration,
                   inputs, maint_runs, total_size, session_files>>

(* session_files.sort(key=age, reverse=True): the orders it can produce *)
SortedOldestFirst(files) ==
    { order \in [1..Cardinality(files) -> files] :
        /\ \A i, j \in 1..Cardinality(files) : i # j => order[i] # order[j]
        /\ \A i, j \in 1..Cardinality(files) : i < j => order[i].age >= order[j].age }

(* the loop "for age_days, size, f in session_files": the files it removes *)
RECURSIVE DiskRemovals(_, _, _, _)
DiskRemovals(order, i, total, removed) ==
    IF i > Len(order) \/ total <= CfgMaxDisk THEN removed
    ELSE IF present[order[i].f]
         THEN DiskRemovals(order, i + 1, total - order[i].size, removed \cup {order[i].f})
         ELSE DiskRemovals(order, i + 1, total, removed)

(* the end of the glob loop and "if total_size > max_disk_mb * 1024 * 1024" *)
MaintDiskLimit ==
    /\ pc["cron"] = "maint_glob"
    /\ glob_todo = {}
    /\ IF total_size > CfgMaxDisk
       THEN \E order \in SortedOldestFirst(session_files) :
               Unlink(DiskRemovals(order, 1, total_size, {}))
       ELSE UNCHANGED <<present, transcript, mtime, lock_ino>>
    /\ total_size' = 0
    /\ session_files' = {}
    /\ pc' = [pc EXCEPT !["cron"] = "idle"]
    /\ UNCHANGED <<next_ino, now, cfg, extVars, storeVars, respVars, lock_fd, lock_fh, iteration,
                   inputs, maint_runs, glob_todo, trim_path, trim_lines>>

----------------------------------------------------------------------------
(* The clock.  A step is longer than any handler runs, so it is taken       *)
(* between handlers.                                                        *)

Tick ==
    /\ \A t \in Threads : pc[t] = "idle"
    /\ now + TickDays <= MaxNow
    /\ now' = now + TickDays
    /\ UNCHANGED <<fsVars, cfg, extVars, storeVars, respVars, lock_fd, lock_fh, pc, iteration, inputs, maint_runs,
                   glob_todo, total_size, session_files, trim_path, trim_lines>>

----------------------------------------------------------------------------
(* The process.  The sessions directory holds the transcripts and the lock  *)
(* files an earlier run of the process left (a cron session never takes a   *)
(* lock, so it has no lock file).                                           *)

EarlierRun == <<Entry("user", "short", 0), Entry("assistant", "short", 0)>>

Init ==
    /\ present = [k \in Keys |-> TRUE]
    /\ transcript = [k \in Keys |-> EarlierRun]
    /\ lock_ino = [k \in Keys |-> CASE k = K_TG -> 1 [] k = K_WH -> 2 [] k = K_CRON -> 0]
    /\ mtime = [k \in Keys |-> 0]
    /\ next_ino = 3
    /\ now = 0
    /\ cfg = SpecCfg
    /\ op = "init"
    /\ result = <<>>
    /\ count = 0
    /\ nloads = 0
    /\ ProcInit
    /\ RespIdle
    /\ ExtIdle

Next ==
    \/ DispatchAcquire
    \/ CallbackAcquire
    \/ DispatchBody
    \/ CallbackBody
    \/ \E t \in WebhookThreads : WebhookTryLock(t)
    \/ \E t \in WebhookThreads : WebhookBody(t)
    \/ \E t \in Threads : CompactSession(t)
    \/ \E t \in Threads : RespondRound(t)
    \/ \E t \in Threads : RespondExhausted(t)
    \/ CronFireJob
    \/ CronFireMaintenance
    \/ \E k \in Keys : MaintVisit(k)
    \/ MaintTrimLock
    \/ MaintTrimRead
    \/ MaintTrimReplace
    \/ MaintDiskLimit
    \/ Tick

Spec == Init /\ [][Next]_vars

----------------------------------------------------------------------------
(* Respond specification: one call of agent_respond on the Telegram session *)
(* at the grain of single service requests and single tool calls.           *)

(* Python: x or d *)
PyOr(c, d) == IF c = NoneText \/ c = "" THEN d ELSE c

(* Python: truth value of a text or None *)
Truthy(c) == c # NoneText /\ c # ""

(* str.strip(): "  " stands for a text of white space only *)
Strip(c) == IF c = "  " THEN "" ELSE c

(* names of TOOLS, which are the keys of TOOL_DISPATCH *)
NativeTools == {"write_memory", "merge_pr"}

(* names of mcp_manager.get_openai_tools(): mcp_<server>_<tool> *)
McpTools == {"mcp_fs_read"}

(* mcp_manager.is_mcp_tool: the name starts with mcp_<server>_ *)
is_mcp_tool(fn_name) == fn_name \in McpTools

(* _filter_tools: "if not allowed" holds for None and for the empty set *)
filter_tools(allowed) ==
    IF ~allowed.given \/ allowed.names = {}
    THEN NativeTools \cup McpTools
    ELSE (NativeTools \cap allowed.names) \cup (McpTools \cap allowed.names)

(* variant: no check against allowed_tool_names *)
ToolAllowedAlways(allowed, fn_name) == TRUE

(* not (allowed_tool_names is not None and fn_name not in allowed_tool_names) *)
ToolAllowed(allowed, fn_name) == ~(allowed.given /\ fn_name \notin allowed.names)

(* variant: the exception is dropped and the call counts as answered *)
ExecutorResultSwallow(outcome) == "long"

(* try: tool_result = executor(fn_args) except Exception: f"ERROR: {exc}" *)
ExecutorResult(outcome) == IF outcome = "raise" THEN "ERROR: exc" ELSE "long"

(* the if / elif chain that yields tool_result for one call; via tells      *)
(* which executor ran, "" for none                                          *)
ToolResult(allowed, call) ==
    IF ~ToolAllowed(allowed, call.name)
    THEN [text |-> "ERROR: tool is not allowed in this context", via |-> ""]
    ELSE IF call.name \in NativeTools
    THEN [text |-> ExecutorResult(call.outcome), via |-> "local"]
    ELSE IF is_mcp_tool(call.name)
    THEN [text |-> ExecutorResult(call.outcome), via |-> "mcp"]
    ELSE [text |-> "Unknown tool", via |-> ""]

(* msg["tool_calls"] of the round: the calls asked for, with fresh ids *)
ToolCalls(it) ==
    [i \in 1..Len(svc.calls) |->
        [id |-> it * MaxRequested + i, name |-> svc.calls[i].name]]

AssistantText(content) == Entry("assistant", content, now)

(* {"role": "assistant", "content": ..., "tool_calls": ...} *)
AssistantCalls(content, calls) == Line("json", FALSE, "assistant", content, now, calls, 0)

(* variant: the result record without the key "tool_call_id" *)
ToolResultEntryNoId(id, text) == Line("json", FALSE, "tool", text, now, <<>>, 0)

(* {"role": "tool", "tool_call_id": tc["id"], "content": tool_result[:3000]} *)
ToolResultEntry(id, text) == Line("json", FALSE, "tool", text, now, <<>>, id)

(* one requested call: a tool name and the outcome its executor would      *)
(* have, "raise" for an executor that raises (one local, one MCP)           *)
RequestedCalls ==
    { [name |-> "write_memory", outcome |-> "ok"],
      [name |-> "write_memory", outcome |-> "raise"],
      [name |-> "merge_pr", outcome |-> "ok"],
      [name |-> "mcp_fs_read", outcome |-> "ok"],
      [name |-> "mcp_fs_read", outcome |-> "raise"],
      [name |-> "no_such_tool", outcome |-> "ok"] }

(* what the service asks for in a round: 1..MaxRequested calls *)
Requests == UNION { [1..n -> RequestedCalls] : n \in 1..MaxRequested }

AllowedChoices ==
    { [given |-> FALSE, names |-> {}],
      [given |-> TRUE, names |-> {}],
      [given |-> TRUE, names |-> {"write_memory"}] }

(* outcomes of the summary request of _compact_session: the request fails,  *)
(* or the message has tool calls (a write_memory call returns a text,       *)
(* returns an "ERROR..." text or raises), or a content, or neither          *)
SummaryCalls ==
    UNION { [1..n -> { [name |-> "write_memory", outcome |-> "ok"],
                       [name |-> "write_memory", outcome |-> "error"],
                       [name |-> "write_memory", outcome |-> "raise"],
                       [name |-> "merge_pr", outcome |-> "ok"] }] : n \in 1..MaxRequested }

SummaryResponses ==
    { [fails |-> TRUE, calls |-> <<>>, content |-> NoneText, fallback |-> "ok"] }
    \cup { [fails |-> FALSE, calls |-> c, content |-> NoneText, fallback |-> "ok"] : c \in SummaryCalls }
    \cup { [fails |-> FALSE, calls |-> <<>>, content |-> NoneText, fallback |-> "ok"] }
    \cup { [fails |-> FALSE, calls |-> <<>>, content |-> "short", fallback |-> f] : f \in {"ok", "error"} }

RespondInit ==
    /\ \E ls \in {<<>>, EarlierRun} :
          /\ transcript = [k \in Keys |-> IF k = K_TG THEN ls ELSE <<>>]
          /\ present = [k \in Keys |-> k = K_TG /\ ls # <<>>]
    /\ now = 0
    /\ cfg = SpecCfg
    /\ op = "init"
    /\ result = <<>>
    /\ count = 0
    /\ nloads = 0
    /\ mtime = [k \in Keys |-> 0]
    /\ lock_ino = [k \in Keys |-> 0]
    /\ next_ino = 1
    /\ ProcInit
    /\ r_pc = "idle"
    /\ allowed_tool_names \in AllowedChoices
    /\ active_tools = {}
    /\ svc \in [calls : Requests, say : {NoneText, "short"}]
    /\ r_iteration = 0
    /\ tc_idx = 0
    /\ ds_calls = 0
    /\ answer = NoAnswer
    /\ exec_log = <<>>
    /\ ret = NoneText
    /\ summary = NoSummary
    /\ memory_writes = 0
    /\ ExtIdle

(* agent_respond up to the loop: append the input, test the compaction      *)
(* threshold, filter the catalog                                            *)
RespondStart ==
    /\ r_pc = "idle"
    /\ FileAppend(K_TG, <<UserEntry>>)
    /\ r_pc' = IF message_count(TRUE, transcript'[K_TG]) > cfg.max_messages
               THEN "compact" ELSE "loop"
    /\ active_tools' = filter_tools(allowed_tool_names)
    /\ UNCHANGED <<lock_ino, next_ino, now, cfg, extVars, storeVars, procVars, allowed_tool_names, svc,
                   r_iteration, tc_idx, ds_calls, answer, exec_log, ret, summary, memory_writes>>

(* _compact_session up to the answer of the summary request *)
CompactRequest ==
    /\ r_pc = "compact"
    /\ LET messages == load_context(present[K_TG], transcript[K_TG], cfg)
       IN  IF messages = <<>>
           THEN /\ FileAppend(K_TG, <<MarkerEntry(now)>>)
                /\ r_pc' = "loop"
                /\ UNCHANGED summary
           ELSE /\ \E resp \in SummaryResponses : summary' = resp
                /\ r_pc' = "apply"
                /\ UNCHANGED <<present, transcript, mtime>>
    /\ UNCHANGED <<lock_ino, next_ino, now, cfg, extVars, storeVars, procVars, allowed_tool_names,
                   active_tools, svc, r_iteration, tc_idx, ds_calls, answer, exec_log, ret,
                   memory_writes>>

(* the write_memory calls of the response, in order *)
WriteCalls(resp) == SelectSeq(resp.calls, LAMBDA c : c.name = "write_memory")

(* write_calls and write_failures after the loop over msg["tool_calls"] *)
write_calls(resp) == Len(WriteCalls(resp))
write_failures(resp) == Len(SelectSeq(WriteCalls(resp), LAMBDA c : c.outcome # "ok"))

(* variant: one write_memory call is enough, failed or not *)
FlushOkAnyWrite(calls, failures) == calls > 0

(* if write_calls > 0 and write_failures == 0: memory_flush_ok = True *)
FlushOk(calls, failures) == calls > 0 /\ failures = 0

(* variant: the result of the fallback write is not looked at *)
FallbackOkAlways(fallback) == TRUE

(* not result.startswith("ERROR") for the fallback write *)
FallbackOk(fallback) == fallback = "ok"

memory_flush_ok(resp) ==
    IF resp.fails THEN FALSE
    ELSE IF resp.calls # <<>> THEN FlushOk(write_calls(resp), write_failures(resp))
    ELSE IF Truthy(resp.content) THEN FallbackOk(resp.fallback)
    ELSE FALSE

(* entries tool_write_memory appended to the memory files *)
Written(resp) ==
    IF resp.fails THEN 0
    ELSE IF resp.calls # <<>> THEN write_calls(resp) - write_failures(resp)
    ELSE IF Truthy(resp.content) /\ resp.fallback = "ok" THEN 1
    ELSE 0

(* _compact_session from the answer on: the memory writes, then            *)
(* session.clear() if memory_flush_ok                                       *)
CompactApply ==
    /\ r_pc = "apply"
    /\ memory_writes' = memory_writes + Written(summary)
    /\ IF memory_flush_ok(summary)
       THEN FileAppend(K_TG, <<MarkerEntry(now)>>)
       ELSE UNCHANGED <<present, transcript, mtime>>
    /\ summary' = NoSummary
    /\ r_pc' = "loop"
    /\ UNCHANGED <<lock_ino, next_ino, now, cfg, extVars, storeVars, procVars, allowed_tool_names,
                   active_tools, svc, r_iteration, tc_idx, ds_calls, answer, exec_log, ret>>

(* the return statements of agent_respond: append the reply and return it *)
ReturnReply(reply) ==
    /\ FileAppend(K_TG, <<AssistantText(reply)>>)
    /\ ret' = reply
    /\ r_pc' = "returned"

(* variant: while True *)
InRangeForever(it) == TRUE

(* for iteration in range(max_iterations) *)
InRange(it) == it < max_iterations

(* variant: the notice is written and the loop goes on *)
OnServiceErrorRetry ==
    /\ FileAppend(K_TG, <<AssistantText("(DeepSeek API error: exc)")>>)
    /\ UNCHANGED <<ret, r_pc>>

(* after "except Exception" of the service request *)
OnServiceError == ReturnReply("(DeepSeek API error: exc)")

(* one pass of the loop up to the tool calls: load_context, _ds_request,    *)
(* then the error notice, the assistant record with the tool calls, or the  *)
(* final reply (content None has no strip(): AttributeError)                *)
RoundRequest ==
    /\ r_pc = "loop"
    /\ InRange(r_iteration)
    /\ ds_calls' = ds_calls + 1
    /\ answer' \in {"fail", "tools", "short", "", "  ", NoneText}
    /\ CASE answer' = "fail" ->
                 /\ OnServiceError
                 /\ UNCHANGED tc_idx
         [] answer' = "tools" ->
                 /\ FileAppend(K_TG, <<AssistantCalls(PyOr(svc.say, ""), ToolCalls(r_iteration))>>)
                 /\ tc_idx' = 1
                 /\ r_pc' = "tools"
                 /\ UNCHANGED ret
         [] answer' = NoneText ->
                 /\ r_pc' = "raised"
                 /\ UNCHANGED <<present, transcript, mtime, ret, tc_idx>>
         [] OTHER ->
                 /\ ReturnReply(PyOr(Strip(answer'), "(no response)"))
                 /\ UNCHANGED tc_idx
    /\ UNCHANGED <<lock_ino, next_ino, now, cfg, extVars, storeVars, procVars, allowed_tool_names,
                   active_tools, svc, r_iteration, exec_log, summary, memory_writes>>

(* the body of "for tc in msg['tool_calls']" for one call, and "continue"   *)
(* after the last                                                           *)
RoundToolCall ==
    /\ r_pc = "tools"
    /\ LET tc == ToolCalls(r_iteration)[tc_idx]
           res == ToolResult(allowed_tool_names, svc.calls[tc_idx])
       IN  /\ exec_log' = IF res.via = "" THEN exec_log
                          ELSE Append(exec_log, [id |-> tc.id, name |-> tc.name, via |-> res.via])
           /\ FileAppend(K_TG, <<ToolResultEntry(tc.id, res.text)>>)
    /\ IF tc_idx = Len(svc.calls)
       THEN /\ tc_idx' = 0
            /\ r_iteration' = r_iteration + 1
            /\ r_pc' = "loop"
       ELSE /\ tc_idx' = tc_idx + 1
            /\ UNCHANGED <<r_iteration, r_pc>>
    /\ UNCHANGED <<lock_ino, next_ino, now, cfg, extVars, storeVars, procVars, allowed_tool_names,
                   active_tools, svc, ds_calls, answer, ret, summary, memory_writes>>

(* the loop ran max_iterations times *)
RoundExhausted ==
    /\ r_pc = "loop"
    /\ ~InRange(r_iteration)
    /\ ReturnReply("(max tool iterations reached)")
    /\ UNCHANGED <<lock_ino, next_ino, now, cfg, extVars, storeVars, procVars, allowed_tool_names,
                   active_tools, svc, r_iteration, tc_idx, ds_calls, answer, exec_log, summary,
                   memory_writes>>

RespondNext ==
    \/ RespondStart
    \/ CompactRequest
    \/ CompactApply
    \/ RoundRequest
    \/ RoundToolCall
    \/ RoundExhausted

SpecRespond == RespondInit /\ [][RespondNext]_vars

----------------------------------------------------------------------------
(* the state the threads, the store and the agent loop are in while a       *)
(* specification of another part of the program runs                        *)
CoreIdle ==
    /\ present = [k \in Keys |-> FALSE]
    /\ transcript = [k \in Keys |-> <<>>]
    /\ mtime = [k \in Keys |-> 0]
    /\ lock_ino = [k \in Keys |-> 0]
    /\ next_ino = 1
    /\ now = 0
    /\ cfg = SpecCfg
    /\ op = "init"
    /\ result = <<>>
    /\ count = 0
    /\ nloads = 0
    /\ ProcInit
    /\ RespIdle

----------------------------------------------------------------------------
(* Calendar matcher: _cron_field_matches and _cron_matches.                 *)
(* Where the code takes a string apart, the string is the sequence of its   *)
(* characters, drawn from the digits and "*", "/", "-", ",", " ".           *)

Digits == <<"0", "1", "2", "3", "4", "5", "6", "7", "8", "9">>

IsDigit(ch) == \E i \in 1..10 : Digits[i] = ch

DigitVal(ch) == (CHOOSE i \in 1..10 : Digits[i] = ch) - 1

(* s.find(ch) + 1: position of the first ch in s, 0 when there is none *)
IndexOf(s, ch) ==
    IF \E i \in 1..Len(s) : s[i] = ch
    THEN CHOOSE i \in 1..Len(s) : s[i] = ch /\ \A j \in 1..(i - 1) : s[j] # ch
    ELSE 0

(* s.startswith(prefix) *)
StartsWith(s, prefix) == Len(s) >= Len(prefix) /\ SubSeq(s, 1, Len(prefix)) = prefix

(* s.split(sep): every occurrence splits, empty pieces are kept *)
RECURSIVE PySplit(_, _)
PySplit(s, sep) ==
    LET i == IndexOf(s, sep)
    IN  IF i = 0 THEN <<s>>
        ELSE <<SubSeq(s, 1, i - 1)>> \o PySplit(SubSeq(s, i + 1, Len(s)), sep)

(* s.split(sep, 1), for an s that holds sep *)
PySplitOnce(s, sep) ==
    LET i == IndexOf(s, sep)
    IN  <<SubSeq(s, 1, i - 1), SubSeq(s, i + 1, Len(s))>>

(* s.split(): pieces between runs of whitespace, none of them empty *)
PySplitSpace(s) == SelectSeq(PySplit(s, " "), LAMBDA piece : piece # <<>>)

(* s.strip() *)
RECURSIVE PyStrip(_)
PyStrip(s) ==
    IF s = <<>> THEN s
    ELSE IF s[1] = " " THEN PyStrip(Tail(s))
    ELSE IF s[Len(s)] = " " THEN PyStrip(SubSeq(s, 1, Len(s) - 1))
    ELSE s

RECURSIVE DigitsVal(_)
DigitsVal(s) ==
    IF s = <<>> THEN 0
    ELSE DigitsVal(SubSeq(s, 1, Len(s) - 1)) * 10 + DigitVal(s[Len(s)])

(* int(s): ok = FALSE stands for ValueError *)
PyInt(s) ==
    LET t == PyStrip(s)
        signed == t # <<>> /\ t[1] \in {"+", "-"}
        body == IF signed THEN Tail(t) ELSE t
        ok == body # <<>> /\ \A i \in 1..Len(body) : IsDigit(body[i])
    IN  [ok |-> ok,
         val |-> IF ~ok THEN 0
                 ELSE IF signed /\ t[1] = "-" THEN 0 - DigitsVal(body)
                 ELSE DigitsVal(body)]

(* str(n) for n >= 0 *)
RECURSIVE ToChars(_)
ToChars(n) ==
    IF n < 10 THEN <<Digits[n + 1]>>
    ELSE ToChars(n \div 10) \o <<Digits[(n % 10) + 1]>>

(* "if max_val == 7 and n == 7: n = 0" *)
DowLiteral(n, max_val) == IF max_val = 7 /\ n = 7 THEN 0 ELSE n

(* the branch part.startswith("*/") *)
StepMatchesEqual(part, value) ==
    LET step == PyInt(SubSeq(part, 3, Len(part)))
    IN  step.ok /\ step.val > 0 /\ value = step.val

StepMatches(part, value) ==
    LET step == PyInt(SubSeq(part, 3, Len(part)))
    IN  step.ok /\ step.val > 0 /\ value % step.val = 0

(* the branch "-" in part *)
RangeMatchesNoWrap(part, value, max_val) ==
    LET ends == PySplitOnce(part, "-")
        lo == PyInt(ends[1])
        hi == PyInt(ends[2])
        lo_i == DowLiteral(lo.val, max_val)
        hi_i == DowLiteral(hi.val, max_val)
    IN  lo.ok /\ hi.ok /\ lo_i <= value /\ value <= hi_i

RangeMatches(part, value, max_val) ==
    LET ends == PySplitOnce(part, "-")
        lo == PyInt(ends[1])
        hi == PyInt(ends[2])
        lo_i == DowLiteral(lo.val, max_val)
        hi_i == DowLiteral(hi.val, max_val)
    IN  /\ lo.ok
        /\ hi.ok
        /\ \/ lo_i <= hi_i /\ lo_i <= value /\ value <= hi_i
           \/ lo_i > hi_i /\ (value >= lo_i \/ value <= hi_i)

(* the last branch: a plain number *)
NumberMatches(part, value, max_val) ==
    LET part_i == PyInt(part)
    IN  part_i.ok /\ DowLiteral(part_i.val, max_val) = value

(* one turn of "for part in field.split(',')" gives True *)
PartMatches(part, value, max_val) ==
    IF part = <<"*">> THEN TRUE
    ELSE IF StartsWith(part, <<"*", "/">>) THEN StepMatches(part, value)
    ELSE IF IndexOf(part, "-") # 0 THEN RangeMatches(part, value, max_val)
    ELSE NumberMatches(part, value, max_val)

cron_field_matches(field, value, max_val) ==
    LET parts == PySplit(field, ",")
    IN  \E i \in 1..Len(parts) : PartMatches(PyStrip(parts[i]), value, max_val)

MinuteMax == 59
HourMax == 23
DomMax == 31
MonthMax == 12
DowMax == 7

(* dt.weekday() is 0 on Monday and 6 on Sunday; cron counts from Sunday = 0 *)
py_dow(dt) == (dt.weekday + 1) % 7

cron_matches(expression, dt) ==
    LET fields == PySplitSpace(PyStrip(expression))
    IN  IF Len(fields) # 5 THEN FALSE
        ELSE LET vals == << <<fields[1], dt.minute, MinuteMax>>,
                            <<fields[2], dt.hour, HourMax>>,
                            <<fields[3], dt.day, DomMax>>,
                            <<fields[4], dt.month, MonthMax>>,
                            <<fields[5], py_dow(dt), DowMax>> >>
             IN  \A i \in 1..5 : cron_field_matches(vals[i][1], vals[i][2], vals[i][3])

(* Matcher specification: one call of _cron_matches on drawn inputs *)

Every15 == <<"*", "/", "1", "5", " ", "*", " ", "*", " ", "*", " ", "*">>
Daily8 == <<"0", " ", "8", " ", "*", " ", "*", " ", "*">>

SampleDays == {1, 15, DomMax}
SampleMonths == {1, MonthMax}

DateTimes ==
    [minute : 0..MinuteMax, hour : 0..HourMax, day : SampleDays, month : SampleMonths,
     weekday : 0..6]

BaseDt == [minute |-> 0, hour |-> 0, day |-> 1, month |-> 1, weekday |-> 0]

FieldNames == <<"minute", "hour", "day", "month", "weekday">>

(* values the datetime attribute behind field f takes *)
FieldDomain(f) ==
    CASE f = 1 -> 0..MinuteMax
      [] f = 2 -> 0..HourMax
      [] f = 3 -> 1..DomMax
      [] f = 4 -> 1..MonthMax
      [] f = 5 -> 0..6

(* literals written in a range of field f: the values of the field, and 7 as day of week *)
FieldLiterals(f) ==
    CASE f = 1 -> 0..MinuteMax
      [] f = 2 -> 0..HourMax
      [] f = 3 -> 1..DomMax
      [] f = 4 -> 1..MonthMax
      [] f = 5 -> 0..DowMax

(* the value _cron_matches hands to _cron_field_matches for field f *)
FieldValue(f, dt) ==
    CASE f = 1 -> dt.minute
      [] f = 2 -> dt.hour
      [] f = 3 -> dt.day
      [] f = 4 -> dt.month
      [] f = 5 -> py_dow(dt)

RECURSIVE JoinSpace(_)
JoinSpace(fields) ==
    IF Len(fields) = 1 THEN fields[1]
    ELSE fields[1] \o <<" ">> \o JoinSpace(Tail(fields))

RangeExpr(f, lo, hi) ==
    JoinSpace([i \in 1..5 |->
                  IF i = f THEN ToChars(lo) \o <<"-">> \o ToChars(hi) ELSE <<"*">>])

FixedCase == [kind |-> "fixed", f |-> 0, lo |-> 0, hi |-> 0]

RangeCase(f, lo, hi) == [kind |-> "range", f |-> f, lo |-> lo, hi |-> hi]

MatchInit ==
    /\ CoreIdle
    /\ SchedIdle
    /\ McpIdle
    /\ RegIdle
    /\ \/ /\ c_in = FixedCase
          /\ c_expr \in {Every15, Daily8}
          /\ c_dt \in DateTimes
       \/ \E f \in 1..5 : \E lo \in FieldLiterals(f), hi \in FieldLiterals(f) :
             \E v \in FieldDomain(f) :
                /\ c_in = RangeCase(f, lo, hi)
                /\ c_expr = RangeExpr(f, lo, hi)
                /\ c_dt = [BaseDt EXCEPT ![FieldNames[f]] = v]
    /\ c_done = FALSE
    /\ c_match = FALSE

CronMatches ==
    /\ ~c_done
    /\ c_match' = cron_matches(c_expr, c_dt)
    /\ c_done' = TRUE
    /\ UNCHANGED <<matchOthers, c_in, c_expr, c_dt>>

MatchNext == CronMatches

SpecMatch == MatchInit /\ [][MatchNext]_vars

----------------------------------------------------------------------------
(* Scheduler specification: the thread running _cron_loop, the wall clock   *)
(* and the shutdown signal. Firing a job is its outcome (returns or         *)
(* raises) and the time it takes.                                           *)

MaxMinutes == 3    \* the wall clock stops advancing after this many minutes
ClockLag == 1      \* seconds datetime.now() may fall behind during one sleep of the loop

SleepSeconds == 60 \* for _ in range(60): time.sleep(1)
DsTimeout == 90    \* urlopen(req, timeout=90): a request of agent_respond may take this long

EveryMinute == <<"*", " ", "*", " ", "*", " ", "*", " ", "*">>
EverySecondMinute == <<"*", "/", "2", " ", "*", " ", "*", " ", "*", " ", "*">>

JobIds == {"a", "b"}

(* the configurations drawn: job a is complete and enabled, job b may be    *)
(* disabled, lack its schedule, or match every second minute only           *)
JobConfigs ==
    { << [id |-> "a", schedule |-> EveryMinute, action |-> act, enabled |-> TRUE],
         [id |-> "b", schedule |-> sch, action |-> "act", enabled |-> en] >> :
        act \in {"__maintenance__", "act"},
        sch \in {EveryMinute, EverySecondMinute, <<>>},
        en \in BOOLEAN }

NoKey == -1

(* now.strftime("%Y-%m-%d %H:%M"): one key per calendar minute *)
minute_key(t) == t \div 60

(* the datetime the wall clock shows at second t *)
DateOf(t) ==
    [minute |-> (t \div 60) % 60, hour |-> (t \div 3600) % 24, day |-> 1, month |-> 1,
     weekday |-> 0]

(* last_run.get(job_id) == minute_key *)
AlreadyRan(lr, job_id, key) == lr[job_id] = key

(* last_run[job_id] = minute_key *)
RecordRunNot(lr, job_id, key) == lr

RecordRun(lr, job_id, key) == [lr EXCEPT ![job_id] = key]

(* the "continue" tests of the loop over the jobs *)
Skipped(job, lr, t) ==
    \/ ~job.enabled
    \/ job.id = "" \/ job.schedule = <<>> \/ job.action = ""
    \/ AlreadyRan(lr, job.id, minute_key(t))
    \/ ~cron_matches(job.schedule, DateOf(t))

(* where the loop stands after a firing raised: the handlers around         *)
(* _run_maintenance and around the generic action go on with the next job   *)
AfterRaiseOuter(j) == [at |-> "sleep", job |-> j]

AfterRaise(j) == [at |-> "jobs", job |-> j + 1]

SchedInit ==
    /\ CoreIdle
    /\ CronIdle
    /\ McpIdle
    /\ RegIdle
    /\ wall \in {0, 30}
    /\ running = TRUE
    /\ cron_jobs \in JobConfigs
    /\ last_run = [i \in JobIds |-> NoKey]
    /\ cl_pc = "top"
    /\ cl_now = 0
    /\ cl_job = 0
    /\ fired = [j \in 1..2 |-> <<>>]

(* while _running: read the clock and start the pass over the jobs *)
CronPassBegin ==
    /\ cl_pc = "top"
    /\ running
    /\ cl_now' = wall
    /\ cl_job' = 1
    /\ cl_pc' = "jobs"
    /\ UNCHANGED <<schedOthers, wall, running, cron_jobs, last_run, fired>>

(* while _running: the signal is cleared, the loop ends *)
CronLoopExit ==
    /\ cl_pc = "top"
    /\ ~running
    /\ cl_pc' = "exited"
    /\ UNCHANGED <<schedOthers, wall, running, cron_jobs, last_run, cl_now, cl_job, fired>>

CronJobSkip ==
    /\ cl_pc = "jobs"
    /\ cl_job <= Len(cron_jobs)
    /\ Skipped(cron_jobs[cl_job], last_run, cl_now)
    /\ cl_job' = cl_job + 1
    /\ UNCHANGED <<schedOthers, wall, running, cron_jobs, last_run, cl_pc, cl_now, fired>>

(* record the key, then fire; raised: the firing ends in an exception *)
Fire(raised, seconds) ==
    LET job == cron_jobs[cl_job]
        after == IF raised THEN AfterRaise(cl_job) ELSE [at |-> "jobs", job |-> cl_job + 1]
    IN  /\ cl_pc = "jobs"
        /\ cl_job <= Len(cron_jobs)
        /\ ~Skipped(job, last_run, cl_now)
        /\ wall + seconds < MaxMinutes * 60
        /\ last_run' = RecordRun(last_run, job.id, minute_key(cl_now))
        /\ fired' = [fired EXCEPT ![cl_job] =
                        Append(@, [key |-> minute_key(cl_now), raised |-> raised])]
        /\ wall' = wall + seconds
        /\ cl_pc' = after.at
        /\ cl_job' = after.job
        /\ UNCHANGED <<schedOthers, running, cron_jobs, cl_now>>

CronFireMaintenanceJob ==
    /\ cl_pc = "jobs"
    /\ cl_job <= Len(cron_jobs)
    /\ cron_jobs[cl_job].action = "__maintenance__"
    /\ \E raised \in BOOLEAN : Fire(raised, 0)

CronFireGenericJob ==
    /\ cl_pc = "jobs"
    /\ cl_job <= Len(cron_jobs)
    /\ cron_jobs[cl_job].action # "__maintenance__"
    /\ \E raised \in BOOLEAN : \E seconds \in {0, DsTimeout} : Fire(raised, seconds)

CronPassEnd ==
    /\ cl_pc = "jobs"
    /\ cl_job > Len(cron_jobs)
    /\ cl_pc' = "sleep"
    /\ UNCHANGED <<schedOthers, wall, running, cron_jobs, last_run, cl_now, cl_job, fired>>

(* sixty sleeps of one second with _running set *)
CronSleep ==
    /\ cl_pc = "sleep"
    /\ running
    /\ \E lag \in 0..ClockLag :
          /\ wall + SleepSeconds - lag < MaxMinutes * 60
          /\ wall' = wall + SleepSeconds - lag
    /\ cl_pc' = "top"
    /\ UNCHANGED <<schedOthers, running, cron_jobs, last_run, cl_now, cl_job, fired>>

(* "if not _running: break" *)
CronSleepBreak ==
    /\ cl_pc = "sleep"
    /\ ~running
    /\ cl_pc' = "top"
    /\ UNCHANGED <<schedOthers, wall, running, cron_jobs, last_run, cl_now, cl_job, fired>>

(* _shutdown: the signal handler clears _running *)
shutdown ==
    /\ running
    /\ cl_pc # "exited"
    /\ running' = FALSE
    /\ UNCHANGED <<schedOthers, wall, cron_jobs, last_run, cl_pc, cl_now, cl_job, fired>>

SchedNext ==
    \/ CronPassBegin
    \/ CronLoopExit
    \/ CronJobSkip
    \/ CronFireMaintenanceJob
    \/ CronFireGenericJob
    \/ CronPassEnd
    \/ CronSleep
    \/ CronSleepBreak
    \/ shutdown

SpecSched == SchedInit /\ [][SchedNext]_vars

(* Shutdown specification: the agent_respond call of the respond            *)
(* specification while the signal handler _shutdown may clear _running      *)
ShutdownNext ==
    \/ RespondNext
    \/ shutdown

SpecShutdown == RespondInit /\ [][ShutdownNext]_vars

----------------------------------------------------------------------------
(* Provider specification: one MCPClient registered by start_all under the  *)
(* name "fs", MCPManager.call_tool run by the threads that hand the whole   *)
(* catalog to agent_respond, and the subprocess as the environment: it      *)
(* writes lines to its stdout and exits when it likes.                      *)

MaxMcpCalls == 2   \* calls of MCPManager.call_tool
MaxEmit == 2       \* lines the subprocesses write
MaxGen == 3        \* subprocesses created, the one of start_all included

(* a line without "id" (a notification), and bytes not ended by a newline *)
Notification == [id |-> 0, err |-> FALSE]
Partial == [id |-> -1, err |-> FALSE]

Reply(id, err) == [id |-> id, err |-> err]

ServerNames == {<<"f", "s">>}

(* f"mcp_{server_name}_" *)
Prefix(server_name) == <<"m", "c", "p", "_">> \o server_name \o <<"_">>

ToolFsRead == <<"m", "c", "p", "_", "f", "s", "_", "r", "e", "a", "d">>
ToolZzRead == <<"m", "c", "p", "_", "z", "z", "_", "r", "e", "a", "d">>

(* the servers of _clients whose prefix namespaced_name starts with *)
Routed(namespaced_name) ==
    { sn \in ServerNames : StartsWith(namespaced_name, Prefix(sn)) }

RouteError == "ERROR: no MCP server found for tool"
RestartError == "ERROR: MCP[fs] failed to restart"
TimeoutError == "ERROR: MCP[fs] tool call timed out"

(* MCPClient.call_tool: the text made of what _request returned *)
CallResult(resp) ==
    IF resp = NoReply THEN TimeoutError
    ELSE IF resp.err THEN "ERROR: message"
    ELSE "text"

(* MCPClient.alive *)
alive == proc # 0 /\ ~p_exited

(* self._request_id += 1 *)
NextRequestIdSame(id) == IF id = 0 THEN 1 ELSE id

NextRequestId(id) == id + 1

(* _write: the line reaches the subprocess unless there is none or its end  *)
(* of the pipe is closed (BrokenPipeError is logged and dropped)            *)
WriteLine(msgs, method, id) ==
    IF alive THEN Append(msgs, [method |-> method, id |-> id]) ELSE msgs

Upd(f, t, v) == [f EXCEPT ![t] = v]

(* the state start_all leaves: start() succeeded on the first subprocess    *)
McpInit ==
    /\ CoreIdle
    /\ CronIdle
    /\ SchedIdle
    /\ RegIdle
    /\ m_pc = [t \in McpCallers |-> "idle"]
    /\ m_req = [t \in McpCallers |-> 0]
    /\ m_resp = [t \in McpCallers |-> NoReply]
    /\ m_ret = [t \in McpCallers |-> NoRet]
    /\ m_restarts = [t \in McpCallers |-> 0]
    /\ m_alive = [t \in McpCallers |-> "unread"]
    /\ m_forwarded = [t \in McpCallers |-> FALSE]
    /\ m_lock = ""
    /\ m_blocked = 0
    /\ request_id = 2
    /\ proc = 1
    /\ gen = 1
    /\ spawned = {1}
    /\ p_exited = FALSE
    /\ pipe = <<>>
    /\ rbuf = <<>>
    /\ wire = << [method |-> "initialize", id |-> 1],
                 [method |-> "notifications/initialized", id |-> 0],
                 [method |-> "tools/list", id |-> 2] >>
    /\ init_ok = TRUE
    /\ emitted = 0
    /\ m_calls = 0

(* MCPManager.call_tool, a name that starts with the prefix of a server:    *)
(* read client.alive                                                        *)
CallToolRouted(t) ==
    /\ m_pc[t] = "idle"
    /\ m_calls < MaxMcpCalls
    /\ Routed(ToolFsRead) # {}
    /\ m_calls' = m_calls + 1
    /\ m_alive' = Upd(m_alive, t, IF alive THEN "yes" ELSE "no")
    /\ m_pc' = Upd(m_pc, t, IF alive THEN "call_send" ELSE "stop")
    /\ m_restarts' = Upd(m_restarts, t, 0)
    /\ m_forwarded' = Upd(m_forwarded, t, FALSE)
    /\ m_ret' = Upd(m_ret, t, NoRet)
    /\ UNCHANGED <<mcpOthers, m_req, m_resp, m_lock, m_blocked, request_id, proc, gen, spawned,
                   p_exited, pipe, rbuf, wire, init_ok, emitted>>

(* MCPManager.call_tool, a name no prefix matches *)
CallToolUnknown(t) ==
    /\ m_pc[t] = "idle"
    /\ m_calls < MaxMcpCalls
    /\ Routed(ToolZzRead) = {}
    /\ m_calls' = m_calls + 1
    /\ m_alive' = Upd(m_alive, t, "unread")
    /\ m_restarts' = Upd(m_restarts, t, 0)
    /\ m_forwarded' = Upd(m_forwarded, t, FALSE)
    /\ m_ret' = Upd(m_ret, t, RouteError)
    /\ UNCHANGED <<mcpOthers, m_pc, m_req, m_resp, m_lock, m_blocked, request_id, proc, gen, spawned,
                   p_exited, pipe, rbuf, wire, init_ok, emitted>>

(* restart(): stop() terminates the subprocess and forgets it *)
ClientStop(t) ==
    /\ m_pc[t] = "stop"
    /\ m_restarts' = Upd(m_restarts, t, m_restarts[t] + 1)
    /\ spawned' = spawned \ {proc}
    /\ proc' = 0
    /\ p_exited' = FALSE
    /\ pipe' = <<>>
    /\ rbuf' = <<>>
    /\ wire' = <<>>
    /\ init_ok' = FALSE
    /\ m_pc' = Upd(m_pc, t, "popen")
    /\ UNCHANGED <<mcpOthers, m_req, m_resp, m_ret, m_alive, m_forwarded, m_lock, m_blocked,
                   request_id, gen, emitted, m_calls>>

(* start(): subprocess.Popen gives a new subprocess *)
ClientPopen(t) ==
    /\ m_pc[t] = "popen"
    /\ gen < MaxGen
    /\ gen' = gen + 1
    /\ proc' = gen + 1
    /\ spawned' = spawned \cup {gen + 1}
    /\ p_exited' = FALSE
    /\ pipe' = <<>>
    /\ rbuf' = <<>>
    /\ wire' = <<>>
    /\ init_ok' = FALSE
    /\ m_pc' = Upd(m_pc, t, "init_send")
    /\ UNCHANGED <<mcpOthers, m_req, m_resp, m_ret, m_restarts, m_alive, m_forwarded, m_lock,
                   m_blocked, request_id, emitted, m_calls>>

(* start(): subprocess.Popen raises *)
ClientPopenFails(t) ==
    /\ m_pc[t] = "popen"
    /\ m_pc' = Upd(m_pc, t, "fail_stop")
    /\ UNCHANGED <<mcpOthers, m_req, m_resp, m_ret, m_restarts, m_alive, m_forwarded, m_lock,
                   m_blocked, request_id, proc, gen, spawned, p_exited, pipe, rbuf, wire, init_ok,
                   emitted, m_calls>>

(* start() gives up: stop(), return False, and call_tool returns the        *)
(* restart error without calling client.call_tool                           *)
ForwardAnyway(t) == [at |-> "call_send", ret |-> NoRet]

OnRestartFailed(t) == [at |-> "idle", ret |-> RestartError]

StartFailed(t) ==
    /\ m_pc[t] = "fail_stop"
    /\ spawned' = spawned \ {proc}
    /\ proc' = 0
    /\ p_exited' = FALSE
    /\ pipe' = <<>>
    /\ rbuf' = <<>>
    /\ wire' = <<>>
    /\ init_ok' = FALSE
    /\ m_pc' = Upd(m_pc, t, OnRestartFailed(t).at)
    /\ m_ret' = Upd(m_ret, t, OnRestartFailed(t).ret)
    /\ UNCHANGED <<mcpOthers, m_req, m_resp, m_restarts, m_alive, m_forwarded, m_lock,
                   m_blocked, request_id, gen, emitted, m_calls>>

SendPcs == {"init_send", "list_send", "call_send"}
RecvPcs == {"init_recv", "list_recv", "call_recv"}

Method(at) ==
    CASE at \in {"init_send", "init_recv"} -> "initialize"
      [] at \in {"list_send", "list_recv"} -> "tools/list"
      [] at \in {"call_send", "call_recv"} -> "tools/call"

RecvOf(at) ==
    CASE at = "init_send" -> "init_recv"
      [] at = "list_send" -> "list_recv"
      [] at = "call_send" -> "call_recv"

(* _request up to the loop of _send_and_receive: take the lock, count the   *)
(* id up, write the message                                                 *)
RequestSend(t) ==
    /\ m_pc[t] \in SendPcs
    /\ m_lock = ""
    /\ m_lock' = t
    /\ request_id' = NextRequestId(request_id)
    /\ m_req' = Upd(m_req, t, request_id')
    /\ wire' = WriteLine(wire, Method(m_pc[t]), request_id')
    /\ m_forwarded' = Upd(m_forwarded, t, m_forwarded[t] \/ m_pc[t] = "call_send")
    /\ m_pc' = Upd(m_pc, t, RecvOf(m_pc[t]))
    /\ UNCHANGED <<mcpOthers, m_resp, m_ret, m_restarts, m_alive, m_blocked, proc, gen, spawned,
                   p_exited, pipe, rbuf, init_ok, emitted, m_calls>>

(* _request returns resp: the lock is released and the caller goes on *)
Complete(t, resp) ==
    /\ m_lock' = ""
    /\ m_resp' = Upd(m_resp, t, resp)
    /\ CASE m_pc[t] = "init_recv" ->
              /\ m_pc' = Upd(m_pc, t, IF resp = NoReply \/ resp.err THEN "fail_stop"
                                                                      ELSE "notify")
              /\ init_ok' = (init_ok \/ (resp # NoReply /\ ~resp.err))
              /\ UNCHANGED m_ret
         [] m_pc[t] = "list_recv" ->
              /\ m_pc' = Upd(m_pc, t, "call_send")
              /\ UNCHANGED <<init_ok, m_ret>>
         [] m_pc[t] = "call_recv" ->
              /\ m_pc' = Upd(m_pc, t, "idle")
              /\ m_ret' = Upd(m_ret, t, CallResult(resp))
              /\ UNCHANGED init_ok

(* a complete line waits in the buffer of stdout *)
Buffered == rbuf # <<>> /\ rbuf[1] # Partial

(* one turn of the loop in which select reports the stream readable:        *)
(* readline() returns the first buffered line, fetching everything the pipe *)
(* holds when the buffer has no complete line; a line without id or with    *)
(* another id is dropped                                                    *)
RequestRecvLine(t) ==
    /\ m_pc[t] \in RecvPcs
    /\ m_lock = t
    /\ m_blocked = 0
    /\ proc # 0
    /\ pipe # <<>> \/ (p_exited /\ rbuf # <<>>)
    /\ LET buf == IF Buffered THEN rbuf ELSE rbuf \o pipe
           left == IF Buffered THEN pipe ELSE <<>>
           line == buf[1]
       IN  /\ pipe' = left
           /\ IF line = Partial /\ ~p_exited
              THEN /\ m_blocked' = proc
                   /\ rbuf' = buf
                   /\ UNCHANGED <<m_pc, m_resp, m_ret, m_lock, init_ok>>
              ELSE /\ rbuf' = Tail(buf)
                   /\ UNCHANGED m_blocked
                   /\ IF line # Partial /\ line.id = m_req[t]
                      THEN Complete(t, line)
                      ELSE UNCHANGED <<m_pc, m_resp, m_ret, m_lock, init_ok>>
    /\ UNCHANGED <<mcpOthers, m_req, m_restarts, m_alive, m_forwarded, request_id, proc, gen, spawned,
                   p_exited, wire, emitted, m_calls>>

(* readline() waits for the end of a line and returns when the subprocess   *)
(* it reads from has gone: the bytes it got are no JSON and are dropped     *)
RequestReadlineEof(t) ==
    /\ m_pc[t] \in RecvPcs
    /\ m_lock = t
    /\ m_blocked # 0
    /\ proc # m_blocked \/ p_exited
    /\ m_blocked' = 0
    /\ rbuf' = IF proc = m_blocked THEN SelectSeq(rbuf, LAMBDA l : l # Partial) ELSE rbuf
    /\ UNCHANGED <<mcpOthers, m_pc, m_req, m_resp, m_ret, m_restarts, m_alive, m_forwarded,
                   m_lock, request_id, proc, gen, spawned, p_exited, pipe, wire, init_ok, emitted,
                   m_calls>>

(* the deadline passes while select finds nothing to read (or there is no   *)
(* subprocess, or only its end of file): _request returns None              *)
RequestTimeout(t) ==
    /\ m_pc[t] \in RecvPcs
    /\ m_lock = t
    /\ m_blocked = 0
    /\ pipe = <<>>
    /\ proc = 0 \/ ~p_exited \/ rbuf = <<>>
    /\ Complete(t, NoReply)
    /\ UNCHANGED <<mcpOthers, m_req, m_restarts, m_alive, m_forwarded, m_blocked, request_id,
                   proc, gen, spawned, p_exited, pipe, rbuf, wire, emitted, m_calls>>

(* _notify("notifications/initialized") *)
Notify(t) ==
    /\ m_pc[t] = "notify"
    /\ m_lock = ""
    /\ wire' = WriteLine(wire, "notifications/initialized", 0)
    /\ m_pc' = Upd(m_pc, t, "list_send")
    /\ UNCHANGED <<mcpOthers, m_req, m_resp, m_ret, m_restarts, m_alive, m_forwarded, m_lock,
                   m_blocked, request_id, proc, gen, spawned, p_exited, pipe, rbuf, init_ok, emitted,
                   m_calls>>

(* what the subprocess may write: a reply to the latest request, with a     *)
(* result or an error, a notification, or bytes without a newline           *)
Emissions ==
    { Reply(request_id, FALSE), Reply(request_id, TRUE), Notification, Partial }

ProviderEmit ==
    /\ alive
    /\ emitted < MaxEmit
    /\ \A i \in DOMAIN pipe : pipe[i] # Partial
    /\ \A i \in DOMAIN rbuf : rbuf[i] # Partial
    /\ \E line \in Emissions : pipe' = Append(pipe, line)
    /\ emitted' = emitted + 1
    /\ UNCHANGED <<mcpOthers, m_pc, m_req, m_resp, m_ret, m_restarts, m_alive, m_forwarded,
                   m_lock, m_blocked, request_id, proc, gen, spawned, p_exited, rbuf, wire, init_ok,
                   m_calls>>

ProviderExit ==
    /\ alive
    /\ p_exited' = TRUE
    /\ UNCHANGED <<mcpOthers, m_pc, m_req, m_resp, m_ret, m_restarts, m_alive, m_forwarded,
                   m_lock, m_blocked, request_id, proc, gen, spawned, pipe, rbuf, wire, init_ok,
                   emitted, m_calls>>

(* the steps of thread t *)
CallerStep(t) ==
    \/ CallToolRouted(t)
    \/ CallToolUnknown(t)
    \/ ClientStop(t)
    \/ ClientPopen(t)
    \/ ClientPopenFails(t)
    \/ StartFailed(t)
    \/ RequestSend(t)
    \/ RequestRecvLine(t)
    \/ RequestReadlineEof(t)
    \/ RequestTimeout(t)
    \/ Notify(t)

McpNext ==
    \/ \E t \in McpCallers : CallerStep(t)
    \/ ProviderEmit
    \/ ProviderExit

SpecMcp == McpInit /\ [][McpNext]_vars

----------------------------------------------------------------------------
(* Registry specification: MCPManager.start_all over the configured         *)
(* servers, then get_openai_tools and call_tool by the threads that run     *)
(* agent_respond.  A server is what its configuration entry says: it may    *)
(* fail to spawn, stay silent, answer "initialize" with an error, or work   *)
(* and report its tools.  The requests of the handshake are taken as one    *)
(* step here; the provider specification has them line by line.             *)

MaxRegCalls == 2   \* calls of MCPManager.call_tool

ToolLists == {<<>>, <<ToolC>>, <<ToolBC>>}

(* an entry of CFG["mcp_servers"]; tools is what tools/list answers, <<>>   *)
(* also when it is not answered                                             *)
ServerKinds ==
    { [enabled |-> FALSE, command |-> TRUE, behaviour |-> "ok", tools |-> <<>>],
      [enabled |-> TRUE, command |-> FALSE, behaviour |-> "ok", tools |-> <<>>] }
    \cup { [enabled |-> TRUE, command |-> TRUE, behaviour |-> b, tools |-> <<>>] :
             b \in {"spawn_error", "silent", "init_error"} }
    \cup { [enabled |-> TRUE, command |-> TRUE, behaviour |-> "ok", tools |-> l] :
             l \in ToolLists }

(* servers.items(): two entries under distinct names, in the order of the   *)
(* configuration file                                                       *)
ServerConfigs ==
    { <<[name |-> n1, cfg |-> k1], [name |-> n2, cfg |-> k2]>> :
        n1 \in RegServerNames, n2 \in RegServerNames, k1 \in ServerKinds, k2 \in ServerKinds }

RegInit ==
    /\ CoreIdle
    /\ CronIdle
    /\ SchedIdle
    /\ McpIdle
    /\ g_servers \in { s \in ServerConfigs : s[1].name # s[2].name }
    /\ g_idx = 1
    /\ g_pc = "next"
    /\ g_clients = <<>>
    /\ g_proc = [n \in RegServerNames |-> "none"]
    /\ g_tools = [n \in RegServerNames |-> <<>>]
    /\ g_ret = [n \in RegServerNames |-> "none"]
    /\ g_lock = [n \in RegServerNames |-> ""]
    /\ g_call = [t \in McpCallers |-> IdleCall]
    /\ g_sent = [n \in RegServerNames |-> <<>>]
    /\ g_calls = 0

(* what the server configured as n answers to tools/list *)
ReportedTools(n) ==
    LET i == CHOOSE i \in DOMAIN g_servers : g_servers[i].name = n
    IN  g_servers[i].cfg.tools

(* the entry the loop of start_all stands at *)
CurName == g_servers[g_idx].name
CurCfg == g_servers[g_idx].cfg

(* start() returns False: stop() has forgotten the subprocess and the tools *)
StartFailsKeeping(n) ==
    /\ g_ret' = Upd(g_ret, n, "failed")
    /\ UNCHANGED <<g_proc, g_tools>>

StartFails(n) ==
    /\ g_ret' = Upd(g_ret, n, "failed")
    /\ g_proc' = Upd(g_proc, n, "none")
    /\ g_tools' = Upd(g_tools, n, <<>>)

(* start_all: "if client.start(): self._clients[name] = client" *)
RegisterAnyway(clients, n, started) == Append(clients, n)

Register(clients, n, started) == IF started THEN Append(clients, n) ELSE clients

(* start_all: an entry that is disabled or has no command is passed over *)
StartAllSkip ==
    /\ g_pc = "next"
    /\ g_idx <= Len(g_servers)
    /\ ~CurCfg.enabled \/ ~CurCfg.command
    /\ g_idx' = g_idx + 1
    /\ UNCHANGED <<regOthers, g_servers, g_pc, g_clients, g_proc, g_tools, g_ret, g_lock,
                   g_call, g_sent, g_calls>>

(* start_all: MCPClient(name, srv_cfg), and start() up to subprocess.Popen  *)
StartPopen ==
    /\ g_pc = "next"
    /\ g_idx <= Len(g_servers)
    /\ CurCfg.enabled /\ CurCfg.command
    /\ IF CurCfg.behaviour = "spawn_error"
       THEN /\ StartFails(CurName)
            /\ g_clients' = Register(g_clients, CurName, FALSE)
            /\ g_idx' = g_idx + 1
            /\ UNCHANGED g_pc
       ELSE /\ g_proc' = Upd(g_proc, CurName, "live")
            /\ g_pc' = "init"
            /\ UNCHANGED <<g_idx, g_clients, g_tools, g_ret>>
    /\ UNCHANGED <<regOthers, g_servers, g_lock, g_call, g_sent, g_calls>>

(* start(): _request("initialize"); no answer within the timeout, or an     *)
(* answer with "error", ends it with stop() and False                       *)
StartInitialize ==
    /\ g_pc = "init"
    /\ IF CurCfg.behaviour \in {"silent", "init_error"} \/ g_proc[CurName] # "live"
       THEN /\ StartFails(CurName)
            /\ g_clients' = Register(g_clients, CurName, FALSE)
            /\ g_idx' = g_idx + 1
            /\ g_pc' = "next"
       ELSE /\ g_pc' = "discover"
            /\ UNCHANGED <<g_idx, g_clients, g_proc, g_tools, g_ret>>
    /\ UNCHANGED <<regOthers, g_servers, g_lock, g_call, g_sent, g_calls>>

(* start(): the notification, _request("tools/list"), return True; then     *)
(* start_all registers the client                                           *)
StartDiscover ==
    /\ g_pc = "discover"
    /\ g_tools' = Upd(g_tools, CurName, IF g_proc[CurName] = "live" THEN CurCfg.tools ELSE <<>>)
    /\ g_ret' = Upd(g_ret, CurName, "ok")
    /\ g_clients' = Register(g_clients, CurName, TRUE)
    /\ g_idx' = g_idx + 1
    /\ g_pc' = "next"
    /\ UNCHANGED <<regOthers, g_servers, g_proc, g_lock, g_call, g_sent, g_calls>>

(* start_all returns *)
StartAllReturn ==
    /\ g_pc = "next"
    /\ g_idx > Len(g_servers)
    /\ g_pc' = "done"
    /\ UNCHANGED <<regOthers, g_servers, g_idx, g_clients, g_proc, g_tools, g_ret, g_lock,
                   g_call, g_sent, g_calls>>

(* MCPClient.alive of the client registered as n *)
ClientAlive(n) == g_proc[n] = "live"

(* f"mcp_{server_name}_{tool['name']}" *)
Namespaced(server_name, tool_name) == Prefix(server_name) \o tool_name

(* get_openai_tools: the inner loop over client.tools *)
ToolsOf(sn) ==
    [i \in 1..Len(g_tools[sn]) |->
        [name |-> Namespaced(sn, g_tools[sn][i]), server |-> sn, tool |-> g_tools[sn][i]]]

(* get_openai_tools: the loop over self._clients.items() from entry i on;   *)
(* server and tool say where a name comes from                              *)
RECURSIVE OpenAiToolsFrom(_)
OpenAiToolsFrom(i) ==
    IF i > Len(g_clients) THEN <<>>
    ELSE (IF ClientAlive(g_clients[i]) THEN ToolsOf(g_clients[i]) ELSE <<>>)
         \o OpenAiToolsFrom(i + 1)

get_openai_tools == OpenAiToolsFrom(1)

(* call_tool: the first client, in the order of self._clients, whose prefix *)
(* namespaced_name starts with; 0 when there is none                        *)
RECURSIVE FirstPrefixMatch(_, _)
FirstPrefixMatch(namespaced_name, i) ==
    IF i > Len(g_clients) THEN 0
    ELSE IF StartsWith(namespaced_name, Prefix(g_clients[i])) THEN i
    ELSE FirstPrefixMatch(namespaced_name, i + 1)

(* agent_respond: the reasoning service asks for a tool of the catalog it   *)
(* was given                                                                *)
RegPick(t) ==
    /\ g_pc = "done"
    /\ g_call[t].at = "idle"
    /\ g_calls < MaxRegCalls
    /\ \E i \in DOMAIN get_openai_tools :
          g_call' = Upd(g_call, t, [IdleCall EXCEPT !.at = "picked", !.pick = get_openai_tools[i]])
    /\ g_calls' = g_calls + 1
    /\ UNCHANGED <<regOthers, g_servers, g_idx, g_pc, g_clients, g_proc, g_tools, g_ret,
                   g_lock, g_sent>>

(* call_tool: the routing loop and the test of client.alive *)
RegRoute(t) ==
    /\ g_call[t].at = "picked"
    /\ LET name == g_call[t].pick.name
           i == FirstPrefixMatch(name, 1)
       IN  IF i = 0
           THEN g_call' = Upd(g_call, t, [g_call[t] EXCEPT !.at = "idle", !.ret = RouteError])
           ELSE g_call' = Upd(g_call, t,
                              [g_call[t] EXCEPT
                                 !.server = g_clients[i],
                                 !.tool = PyDrop(name, Len(Prefix(g_clients[i]))),
                                 !.at = IF ClientAlive(g_clients[i]) THEN "send" ELSE "restart"])
    /\ UNCHANGED <<regOthers, g_servers, g_idx, g_pc, g_clients, g_proc, g_tools, g_ret,
                   g_lock, g_sent, g_calls>>

(* "with self._lock" of _request *)
LockFreeAlways(n) == TRUE

LockFree(n) == g_lock[n] = ""

(* restart(): stop(), then start() up to subprocess.Popen; neither takes    *)
(* the lock                                                                 *)
RegRestart(t) ==
    /\ g_call[t].at = "restart"
    /\ LET n == g_call[t].server
       IN  \/ /\ g_proc' = Upd(g_proc, n, "live")
              /\ g_tools' = Upd(g_tools, n, <<>>)
              /\ g_ret' = Upd(g_ret, n, "none")
              /\ g_call' = Upd(g_call, t, [g_call[t] EXCEPT !.at = "handshake"])
           \/ /\ StartFails(n)
              /\ g_call' = Upd(g_call, t, [g_call[t] EXCEPT !.at = "idle", !.ret = RestartError])
    /\ UNCHANGED <<regOthers, g_servers, g_idx, g_pc, g_clients, g_lock, g_sent, g_calls>>

(* the rest of start() in a restart: its requests wait for the lock *)
RegHandshake(t) ==
    /\ g_call[t].at = "handshake"
    /\ LET n == g_call[t].server
       IN  /\ LockFree(n)
           /\ \/ /\ g_proc[n] = "live"
                 /\ g_tools' = Upd(g_tools, n, ReportedTools(n))
                 /\ g_ret' = Upd(g_ret, n, "ok")
                 /\ g_call' = Upd(g_call, t, [g_call[t] EXCEPT !.at = "send"])
                 /\ UNCHANGED g_proc
              \/ /\ StartFails(n)
                 /\ g_call' = Upd(g_call, t, [g_call[t] EXCEPT !.at = "idle", !.ret = RestartError])
    /\ UNCHANGED <<regOthers, g_servers, g_idx, g_pc, g_clients, g_lock, g_sent, g_calls>>

(* client.call_tool: _request("tools/call") takes the lock of the client    *)
(* and writes the request                                                   *)
RegSend(t) ==
    /\ g_call[t].at = "send"
    /\ LET n == g_call[t].server
       IN  /\ LockFree(n)
           /\ g_lock' = Upd(g_lock, n, t)
           /\ g_sent' = IF ClientAlive(n) THEN Upd(g_sent, n, g_call[t].tool) ELSE g_sent
    /\ g_call' = Upd(g_call, t, [g_call[t] EXCEPT !.at = "recv"])
    /\ UNCHANGED <<regOthers, g_servers, g_idx, g_pc, g_clients, g_proc, g_tools, g_ret,
                   g_calls>>

(* _request returns (the reply, or None at the deadline) and the lock is    *)
(* released                                                                 *)
RegReturn(t) ==
    /\ g_call[t].at = "recv"
    /\ g_lock' = Upd(g_lock, g_call[t].server, "")
    /\ g_call' = Upd(g_call, t, [g_call[t] EXCEPT !.at = "idle", !.ret = "returned"])
    /\ UNCHANGED <<regOthers, g_servers, g_idx, g_pc, g_clients, g_proc, g_tools, g_ret,
                   g_sent, g_calls>>

(* a subprocess exits *)
RegProviderExit ==
    /\ \E n \in RegServerNames :
          /\ g_proc[n] = "live"
          /\ g_proc' = Upd(g_proc, n, "exited")
    /\ UNCHANGED <<regOthers, g_servers, g_idx, g_pc, g_clients, g_tools, g_ret, g_lock,
                   g_call, g_sent, g_calls>>

RegCallerStep(t) ==
    \/ RegPick(t)
    \/ RegRoute(t)
    \/ RegRestart(t)
    \/ RegHandshake(t)
    \/ RegSend(t)
    \/ RegReturn(t)

RegNext ==
    \/ StartAllSkip
    \/ StartPopen
    \/ StartInitialize
    \/ StartDiscover
    \/ StartAllReturn
    \/ \E t \in McpCallers : RegCallerStep(t)
    \/ RegProviderExit

SpecRegistry == RegInit /\ [][RegNext]_vars

----------------------------------------------------------------------------
(* Claims on the lock discipline *)

SameKey(t, u) == t # u /\ SessionKey(t) = SessionKey(u)

(* the thread that took the step *)
Acted(t) == pc'[t] # pc[t] \/ iteration'[t] # iteration[t]

(* acquire_lock() of thread t returned True in this step *)
Acquired(t) == lock_fd[t] = 0 /\ lock_fd'[t] # 0

(* acquire_lock() of thread t returned False in this step *)
ObservedBusy(t) ==
    /\ pc[t] \in {"idle", "wh_retry"}
    /\ pc'[t] \in {"idle", "wh_retry"}
    /\ lock_fd'[t] = 0
    /\ \/ pc'[t] # pc[t]
       \/ inputs' # inputs /\ \A u \in Threads : pc'[u] = pc[u]

(* C1: at most one Session object holds the lock of a session key, whatever *)
(* the interleaving of handlers, scheduler and maintenance.                 *)
C1_OneHolderPerKey ==
    \A t, u \in Threads : (SameKey(t, u) /\ lock_fd[t] # 0) => lock_fd[u] = 0

(* C2: of two inputs for one key handled at the same time one acquires the  *)
(* lock and proceeds, the other gets Busy at once and appends nothing.      *)
C2_OneProceedsOtherBusy ==
    [][\A t \in Threads :
          /\ Acquired(t) => \A u \in Threads : SameKey(t, u) => lock_fd[u] = 0
          /\ ObservedBusy(t) => transcript' = transcript]_vars

(* C3: every append to a transcript is made by a thread that holds the lock *)
(* of that session key.                                                     *)
C3_AppendUnderLock ==
    [][\A k \in Keys :
          Len(transcript'[k]) > Len(transcript[k]) =>
             \E t \in Threads : SessionKey(t) = k /\ Acted(t) /\ lock_fd[t] # 0]_vars

----------------------------------------------------------------------------
(* What the claims speak of, stated independently of the code's loops *)

T == transcript[K_TG]

IsRoleBearing(e) == e.kind = "json" /\ ~e.marker /\ e.role # ""
IsMarkerLine(e) == e.kind = "json" /\ e.marker
IsUnparsable(e) == e.kind = "junk"
IsParsable(e) == ~IsUnparsable(e)

LastMarkerPos(lines) ==
    IF \E i \in 1..Len(lines) : IsMarkerLine(lines[i])
    THEN CHOOSE i \in 1..Len(lines) :
            /\ IsMarkerLine(lines[i])
            /\ \A j \in (i + 1)..Len(lines) : ~IsMarkerLine(lines[j])
    ELSE 0

(* the role-bearing records stored strictly after the last marker *)
Visible(lines) ==
    SelectSeq(SubSeq(lines, LastMarkerPos(lines) + 1, Len(lines)), IsRoleBearing)

IsPrefix(s, t) == Len(s) <= Len(t) /\ SubSeq(t, 1, Len(s)) = s

(* the stored record the i-th returned message comes from, when the result  *)
(* is read as the most recent Len(res) visible records                      *)
Origin(lines, res, i) == StripInternal(Visible(lines)[Len(Visible(lines)) - Len(res) + i])

Placeholder(m) == [m EXCEPT !.content = "[truncated]"]

NoAppendSinceCompact(lines) == Len(lines) > 0 /\ IsMarkerLine(lines[Len(lines)])

(* C4: append(entry) and clear() add exactly one record at the end; the     *)
(* records stored before the call are an unchanged prefix afterwards.       *)
C4_AppendOnly ==
    [][op' \in {"append", "clear"} =>
          /\ Len(transcript'[K_TG]) = Len(T) + 1
          /\ IsPrefix(T, transcript'[K_TG])
          /\ (op' = "clear" => IsMarkerLine(transcript'[K_TG][Len(T) + 1]))]_vars

C4_Witness ==
    /\ op = "clear"
    /\ Len(T) >= 3
    /\ IsRoleBearing(T[1])
    /\ IsRoleBearing(T[2])

(* C5: load_context() returns only role-bearing records stored after the    *)
(* most recent marker, in their order; right after clear() it is empty.     *)
C5_OnlyAfterMarker ==
    op = "load" =>
        /\ Len(result) <= Len(Visible(T))
        /\ \A i \in 1..Len(result) :
              \/ result[i] = Origin(T, result, i)
              \/ result[i] = Placeholder(Origin(T, result, i))
        /\ (NoAppendSinceCompact(T) => result = <<>>)

C5_Witness ==
    /\ op = "load"
    /\ LastMarkerPos(T) > 1
    /\ IsRoleBearing(T[1])
    /\ Len(result) = 1
    /\ cfg.max_messages > 0

C5_WitnessEmpty ==
    /\ op = "load"
    /\ NoAppendSinceCompact(T)
    /\ IsRoleBearing(T[1])

(* C6: message_count() is the number of role-bearing records strictly after *)
(* the last marker, and zero right after clear().                           *)
C6_MessageCount ==
    op = "count" =>
        /\ count = Len(Visible(T))
        /\ (NoAppendSinceCompact(T) => count = 0)

C6_Witness ==
    /\ op = "count"
    /\ LastMarkerPos(T) > 1
    /\ IsRoleBearing(T[1])
    /\ count = 1

(* C7: with more than max_messages visible records, load_context() returns  *)
(* exactly max_messages records, the most recent ones, in original order.   *)
C7_Bounding ==
    (op = "load" /\ Len(Visible(T)) > cfg.max_messages) =>
        /\ Len(result) = cfg.max_messages
        /\ \A i \in 1..Len(result) :
              \/ result[i] = Origin(T, result, i)
              \/ result[i] = Placeholder(Origin(T, result, i))

(* C7 where max_messages >= 1: there the cap is exact *)
C7_BoundingPositiveMax ==
    (op = "load" /\ cfg.max_messages >= 1 /\ Len(Visible(T)) > cfg.max_messages) =>
        /\ Len(result) = cfg.max_messages
        /\ \A i \in 1..Len(result) :
              \/ result[i] = Origin(T, result, i)
              \/ result[i] = Placeholder(Origin(T, result, i))

(* C8 as stated: a returned record is the placeholder iff it is a tool      *)
(* result outside the final prune_tool_results_after records whose content  *)
(* exceeds the threshold; every other record is returned unchanged.         *)
ShouldTruncate(lines, res, i, keep) ==
    /\ Origin(lines, res, i).role = "tool"
    /\ i <= Len(res) - keep
    /\ ContentLen(Origin(lines, res, i).content) > TruncThreshold

C8_TruncationAsStated ==
    op = "load" =>
        \A i \in 1..Len(result) :
            IF ShouldTruncate(T, result, i, cfg.prune_tool_results_after)
            THEN result[i] = Placeholder(Origin(T, result, i))
            ELSE result[i] = Origin(T, result, i)

(* C8 amended: the same for prune_tool_results_after > 0; with              *)
(* prune_tool_results_after = 0 nothing is replaced.                        *)
C8_Truncation ==
    op = "load" =>
        \A i \in 1..Len(result) :
            IF /\ cfg.prune_tool_results_after > 0
               /\ ShouldTruncate(T, result, i, cfg.prune_tool_results_after)
            THEN result[i] = Placeholder(Origin(T, result, i))
            ELSE result[i] = Origin(T, result, i)

C8_Witness ==
    /\ op = "load"
    /\ Len(result) = 2
    /\ cfg.prune_tool_results_after = 1
    /\ result[1] = StripInternal(Entry("tool", "[truncated]", 0))
    /\ result[2] = StripInternal(Entry("tool", "long", 0))
    /\ \E i \in 1..Len(T) : T[i].role = "tool" /\ T[i].content = "long"

(* C9: load_context() leaves the stored transcript as it is, and a second   *)
(* load_context() of the unmodified transcript returns the same list.       *)
C9_ReadOnly ==
    [][op' = "load" =>
          /\ transcript' = transcript
          /\ present' = present
          /\ (op = "load" => result' = result)]_vars

C9_Witness ==
    /\ op = "load"
    /\ nloads = 2
    /\ \E i \in 1..Len(result) : result[i].content = "[truncated]"

(* C10: unparsable lines are skipped: load_context() and message_count()    *)
(* return what they return on the transcript without those lines.           *)
RemoveUnparsable(lines) == SelectSeq(lines, IsParsable)

C10_SkipUnparsable ==
    /\ op = "load" => result = load_context(present[K_TG], RemoveUnparsable(T), cfg)
    /\ op = "count" => count = message_count(present[K_TG], RemoveUnparsable(T))

C10_Witness ==
    /\ op = "load"
    /\ Len(T) >= 3
    /\ IsUnparsable(T[1])
    /\ IsMarkerLine(T[2])
    /\ result # <<>>

----------------------------------------------------------------------------
(* Claims on _trim_session_entries *)

(* the newest n of the stored lines, in their order *)
NewestTail(lines, n) ==
    IF Len(lines) <= n THEN lines ELSE [i \in 1..n |-> lines[Len(lines) - n + i]]

(* a step of _trim_session_entries after it took its lock *)
TrimStep == pc["cron"] \in {"trim_read", "trim_replace"} /\ pc'["cron"] # pc["cron"]

(* C11: when trim returns, the file holds the newest max_entries of the     *)
(* stored lines if there were more, else it is unchanged; and no step of    *)
(* trim shows a reader anything but the complete old or the complete new    *)
(* content.                                                                 *)
C11_TrimNewestAtomic ==
    [][TrimStep =>
          LET old == transcript[trim_path]
          IN  transcript'[trim_path] \in {old, NewestTail(old, CfgMaxEntries)}
              /\ (pc'["cron"] = "maint_glob" =>
                     transcript'[trim_path] = NewestTail(old, CfgMaxEntries))]_vars

----------------------------------------------------------------------------
(* Claims on agent_respond (respond specification) *)

(* the record written last *)
LastRecord == T[Len(T)]

(* the call of agent_respond ended, by return or by an exception *)
Ended == r_pc \in {"returned", "raised"}

ErrorNotice == "(DeepSeek API error: exc)"
ExhaustNotice == "(max tool iterations reached)"

(* the text begins with "ERROR" *)
StartsWithError(text) ==
    text \in {"ERROR: tool is not allowed in this context", "ERROR: exc"}

(* the call returned a text that is the content of the assistant record    *)
(* written last                                                            *)
PersistedAndReturned ==
    /\ r_pc = "returned"
    /\ ret # NoneText
    /\ Len(T) > 0
    /\ IsRoleBearing(LastRecord)
    /\ LastRecord.role = "assistant"
    /\ LastRecord.content = ret

(* C12: every call of agent_respond that ends has appended an assistant     *)
(* record as its last write and returned that record's content.             *)
C12_PersistedReturnedText == Ended => PersistedAndReturned

(* steps a call of agent_respond can still take, at most; a round is the   *)
(* request and at most MaxRequested tool calls                              *)
RoundSteps == MaxRequested + 2
StepsLeft ==
    CASE r_pc = "idle" -> max_iterations * RoundSteps + 4
      [] r_pc = "compact" -> max_iterations * RoundSteps + 3
      [] r_pc = "apply" -> max_iterations * RoundSteps + 2
      [] r_pc = "loop" -> (max_iterations - r_iteration) * RoundSteps + 1
      [] r_pc = "tools" -> (max_iterations - r_iteration) * RoundSteps - tc_idx
      [] OTHER -> 0

RequestFailed == ds_calls' # ds_calls /\ answer' = "fail"

(* C14: a failed service request ends the call in that round with the error *)
(* notice persisted and returned; afterwards no request is made, no tool    *)
(* runs and nothing is written.                                             *)
C14_FailureEndsInvocation ==
    [][/\ RequestFailed =>
             /\ r_pc' = "returned"
             /\ ret' = ErrorNotice
             /\ transcript'[K_TG] = Append(T, AssistantText(ErrorNotice))
             /\ exec_log' = exec_log
       /\ answer = "fail" =>
             /\ ds_calls' = ds_calls
             /\ exec_log' = exec_log
             /\ transcript' = transcript]_vars

C14_Witness ==
    /\ answer = "fail"
    /\ r_pc = "returned"
    /\ ds_calls = 2
    /\ Len(exec_log) = 1

(* the step that handles one tool call, and the call it handles *)
ToolCallStep == r_pc = "tools" /\ tc_idx' # tc_idx
CurrentCall == ToolCalls(r_iteration)[tc_idx]

(* the step appended exactly one record: the result of the current call *)
ResultAppended ==
    /\ Len(transcript'[K_TG]) = Len(T) + 1
    /\ SubSeq(transcript'[K_TG], 1, Len(T)) = T
    /\ transcript'[K_TG][Len(T) + 1].role = "tool"
    /\ transcript'[K_TG][Len(T) + 1].tool_call_id = CurrentCall.id

(* C15: a requested tool whose name is outside a given allowed_tool_names   *)
(* runs no executor, and its result record begins with "ERROR".             *)
C15_UnauthorizedFailsClosed ==
    [][(/\ ToolCallStep
        /\ allowed_tool_names.given
        /\ CurrentCall.name \notin allowed_tool_names.names) =>
          /\ exec_log' = exec_log
          /\ ResultAppended
          /\ StartsWithError(transcript'[K_TG][Len(T) + 1].content)]_vars

C15_Witness ==
    /\ allowed_tool_names = [given |-> TRUE, names |-> {"write_memory"}]
    /\ svc.calls = <<[name |-> "merge_pr", outcome |-> "ok"],
                     [name |-> "mcp_fs_read", outcome |-> "ok"]>>
    /\ r_pc = "loop"
    /\ r_iteration = 1
    /\ exec_log = <<>>
    /\ StartsWithError(LastRecord.content)

(* C16: with allowed_tool_names given, every tool of the catalog handed to  *)
(* the reasoning service has a name in allowed_tool_names.                  *)
C16_CatalogWithinAllowed ==
    (allowed_tool_names.given /\ r_pc # "idle") =>
        active_tools \subseteq allowed_tool_names.names

(* the transcript ends with the assistant record carrying calls and the     *)
(* results of the first k of them, in call order, each with its call's id   *)
RoundRecorded(lines, calls, k) ==
    LET p == Len(lines) - k
    IN  /\ p >= 1
        /\ lines[p].role = "assistant"
        /\ lines[p].tool_calls = calls
        /\ \A i \in 1..k : /\ lines[p + i].role = "tool"
                            /\ lines[p + i].tool_call_id = calls[i].id

(* C17: in a round with N tool calls the assistant record carrying the      *)
(* calls is appended first, then one result record per call, in call order  *)
(* and with the call's id; the next service request finds all N of them.    *)
C17_ResultsFollowCalls ==
    /\ r_pc = "tools" => RoundRecorded(T, ToolCalls(r_iteration), tc_idx - 1)
    /\ (r_pc = "loop" /\ r_iteration > 0) =>
          RoundRecorded(T, ToolCalls(r_iteration - 1), Len(svc.calls))

C17_Witness ==
    /\ r_pc = "loop"
    /\ r_iteration = 1
    /\ Len(T) = 4
    /\ Len(T[2].tool_calls) = 2
    /\ T[3].tool_call_id = T[2].tool_calls[1].id
    /\ T[4].tool_call_id = T[2].tool_calls[2].id
    /\ T[3].tool_call_id # T[4].tool_call_id

(* C18: an executor that raises does not end agent_respond: the call's      *)
(* result record holds the error text, the next call of the round is        *)
(* handled next, and after the last call the loop goes on.                  *)
C18_ExecutorExceptionContained ==
    [][ToolCallStep =>
          /\ r_pc' # "raised"
          /\ (exec_log' # exec_log /\ svc.calls[tc_idx].outcome = "raise") =>
                /\ ResultAppended
                /\ StartsWithError(transcript'[K_TG][Len(T) + 1].content)
                /\ IF tc_idx < Len(svc.calls)
                   THEN r_pc' = "tools" /\ tc_idx' = tc_idx + 1
                   ELSE r_pc' = "loop" /\ r_iteration' = r_iteration + 1]_vars

C18_Witness ==
    /\ ~allowed_tool_names.given
    /\ svc.calls = <<[name |-> "mcp_fs_read", outcome |-> "raise"],
                     [name |-> "write_memory", outcome |-> "raise"]>>
    /\ r_pc = "returned"
    /\ Len(exec_log) = 4
    /\ answer = "short"

----------------------------------------------------------------------------
(* Claims on _compact_session (respond specification) *)

(* the step of _compact_session that follows the answer of the service *)
ApplyStep == r_pc = "apply" /\ r_pc' # r_pc

MarkerInserted == transcript'[K_TG] = Append(T, MarkerEntry(now))

IsWrite(c) == c.name = "write_memory"

SomeWriteSucceeded(resp) ==
    \E i \in 1..Len(resp.calls) : IsWrite(resp.calls[i]) /\ resp.calls[i].outcome = "ok"

AllWritesSucceeded(resp) ==
    /\ \E i \in 1..Len(resp.calls) : IsWrite(resp.calls[i])
    /\ \A i \in 1..Len(resp.calls) : IsWrite(resp.calls[i]) => resp.calls[i].outcome = "ok"

(* C19 as stated: one successful memory write among the tool calls of the   *)
(* response is enough for the marker.                                       *)
C19_AnyWriteInsertsMarker ==
    [][(ApplyStep /\ SomeWriteSucceeded(summary)) => MarkerInserted]_vars

(* C19: when the response carries tool calls, the marker is inserted if     *)
(* and only if it has a memory write and every memory write succeeded;      *)
(* otherwise the transcript is left as it is.                               *)
C19_AllWritesInsertMarker ==
    [][(ApplyStep /\ summary.calls # <<>>) =>
          IF AllWritesSucceeded(summary)
          THEN MarkerInserted
          ELSE transcript' = transcript]_vars

C19_Witness ==
    /\ r_pc = "loop"
    /\ ds_calls = 0
    /\ memory_writes = 2
    /\ IsMarkerLine(LastRecord)

(* the response left something in the memory files *)
DurablyPersisted(resp) ==
    /\ ~resp.fails
    /\ \/ SomeWriteSucceeded(resp)
       \/ resp.calls = <<>> /\ Truthy(resp.content) /\ resp.fallback = "ok"

(* C20: a compaction attempt made by agent_respond changes the transcript   *)
(* only by a marker, and only after a memory write or the fallback write    *)
(* of the summary succeeded; when the request fails or nothing was written  *)
(* the transcript and the context load_context returns stay as they were.   *)
C20_MarkerOnlyAfterFlush ==
    [][(r_pc \in {"compact", "apply"} /\ r_pc' # r_pc) =>
          /\ transcript' # transcript =>
                /\ MarkerInserted
                /\ r_pc = "apply"
                /\ DurablyPersisted(summary)
                /\ memory_writes' > memory_writes
          /\ (r_pc = "apply" /\ ~DurablyPersisted(summary)) =>
                /\ transcript' = transcript
                /\ load_context(present'[K_TG], transcript'[K_TG], cfg)
                      = load_context(present[K_TG], T, cfg)]_vars

C20_Witness ==
    /\ r_pc = "loop"
    /\ ds_calls = 0
    /\ message_count(present[K_TG], T) > cfg.max_messages
    /\ memory_writes = 0
    /\ ~IsMarkerLine(LastRecord)
    /\ Len(load_context(present[K_TG], T, cfg)) = cfg.max_messages

----------------------------------------------------------------------------
(* Claims on the calendar matcher *)

(* C24: "*/15 * * * *" is accepted exactly at the times whose minute is 0,  *)
(* 15, 30 or 45, whatever the hour, day, month and weekday; "0 8 * * *" is  *)
(* accepted exactly at the times with hour 8 and minute 0.                  *)
C24_FixedExpressions ==
    c_done =>
        /\ c_expr = Every15 => (c_match <=> c_dt.minute \in {0, 15, 30, 45})
        /\ c_expr = Daily8 => (c_match <=> (c_dt.hour = 8 /\ c_dt.minute = 0))

C24_Witness ==
    /\ c_done
    /\ c_expr = Every15
    /\ c_dt = [minute |-> 45, hour |-> 23, day |-> 31, month |-> 12, weekday |-> 6]
    /\ c_match

(* the literal n of field f, with 7 standing for 0 as day of week *)
SundayAsZero(f, n) == IF f = 5 /\ n = 7 THEN 0 ELSE n

(* C25: a range field lo-hi accepts v iff lo <= v <= hi when lo <= hi, and  *)
(* iff v >= lo or v <= hi when lo > hi, in every field and for every value  *)
(* of the field, the day-of-week literal 7 being read as 0.                 *)
C25_RangeInclusiveWrap ==
    (c_done /\ c_in.kind = "range") =>
        LET lo == SundayAsZero(c_in.f, c_in.lo)
            hi == SundayAsZero(c_in.f, c_in.hi)
            v == FieldValue(c_in.f, c_dt)
        IN  c_match <=> IF lo <= hi THEN lo <= v /\ v <= hi
                                    ELSE v >= lo \/ v <= hi

C25_Witness ==
    /\ c_done
    /\ c_in = RangeCase(5, 6, 7)
    /\ c_dt.weekday = 6
    /\ c_match

----------------------------------------------------------------------------
(* Claims on the scheduler loop *)

(* job j is complete and enabled: none of the first two "continue" tests takes it *)
Eligible(job) == job.enabled /\ job.id # "" /\ job.schedule # <<>> /\ job.action # ""

FiredFor(j, key) == \E i \in DOMAIN fired[j] : fired[j][i].key = key

TimesFired(j, key) == Cardinality({ i \in DOMAIN fired[j] : fired[j][i].key = key })

(* C21: a job that has fired for minute key M never fires again for M,      *)
(* however often it is checked during M and whether or not the firing       *)
(* raised an exception.                                                     *)
C21_FiresOncePerKey ==
    \A j \in DOMAIN fired : \A i, k \in DOMAIN fired[j] :
        i # k => fired[j][i].key # fired[j][k].key

(* job a is checked again during the minute in which its firing raised *)
C21_Witness ==
    /\ cl_pc = "jobs"
    /\ cl_job = 1
    /\ Len(fired[1]) = 1
    /\ fired[1][1] = [key |-> minute_key(cl_now), raised |-> TRUE]
    /\ cl_now > 30

(* C22: while the scheduler runs, every enabled job fires exactly once for  *)
(* every calendar minute its expression matches: for each minute before the *)
(* one of the current pass, and for the minute of a completed pass.         *)
C22_EveryMatchingMinuteFired ==
    (running /\ cl_pc \in {"jobs", "sleep"}) =>
        \A j \in DOMAIN cron_jobs :
            \A M \in 0..minute_key(cl_now) :
                (/\ Eligible(cron_jobs[j])
                 /\ cron_matches(cron_jobs[j].schedule, DateOf(M * 60))
                 /\ (M < minute_key(cl_now) \/ cl_pc = "sleep"))
                => TimesFired(j, M) = 1

(* the step fired a job and the firing raised *)
RaisedStep ==
    \E j \in DOMAIN fired :
        /\ Len(fired'[j]) = Len(fired[j]) + 1
        /\ fired'[j][Len(fired'[j])].raised

(* C23: an exception raised while firing a job (maintenance or generic) is  *)
(* contained: the loop goes on with the next job, every other enabled job   *)
(* matching the time of the pass has fired when the pass is over, and the   *)
(* loop ends only when the shutdown signal was given.                       *)
C23_FiringExceptionContained ==
    /\ [][RaisedStep => (cl_pc' = "jobs" /\ cl_job' = cl_job + 1 /\ running' = running)]_vars
    /\ [](cl_pc = "sleep" =>
             \A j \in DOMAIN cron_jobs :
                 (Eligible(cron_jobs[j]) /\ cron_matches(cron_jobs[j].schedule, DateOf(cl_now)))
                 => FiredFor(j, minute_key(cl_now)))
    /\ [](cl_pc = "exited" => ~running)

(* job a raised in two passes, job b fired in the second all the same *)
C23_Witness ==
    /\ cl_pc = "sleep"
    /\ Len(fired[1]) = 2
    /\ fired[1][1].raised
    /\ fired[1][2] = [key |-> minute_key(cl_now), raised |-> TRUE]
    /\ cron_jobs[1].action = "__maintenance__"
    /\ FiredFor(2, minute_key(cl_now))

----------------------------------------------------------------------------
(* Claims on the provider protocol *)

(* the step wrote a tool-call request to the subprocess *)
CallWritten ==
    /\ Len(wire') = Len(wire) + 1
    /\ wire'[Len(wire')].method = "tools/call"

(* initialize, the initialized notification and the tool discovery were     *)
(* written, in this order                                                   *)
Handshaken(msgs) ==
    \E a, b, c \in DOMAIN msgs :
        /\ a < b /\ b < c
        /\ msgs[a].method = "initialize"
        /\ msgs[b].method = "notifications/initialized"
        /\ msgs[c].method = "tools/list"

(* C26: on every subprocess, no tool-call request is written before, on     *)
(* that subprocess, initialize was answered without error, the initialized  *)
(* notification was sent and the tool discovery was issued; also after a    *)
(* restart.                                                                 *)
C26_HandshakeBeforeCalls ==
    [][CallWritten => (init_ok /\ Handshaken(wire))]_vars

(* _request of thread t returns in this step *)
RequestReturns(t) == m_lock = t /\ m_lock' = ""

(* C27: every request gets an id strictly greater than the id of every      *)
(* earlier request of the connection, across restarts too, and _request     *)
(* returns no reply whose id differs from the one it assigned.              *)
C27_IdsIncreaseRepliesMatch ==
    /\ [](\A t \in McpCallers : m_req[t] <= request_id)
    /\ [][request_id' >= request_id]_vars
    /\ [][\A t \in McpCallers :
             (m_lock = "" /\ m_lock' = t) =>
                 (m_req'[t] > request_id /\ \A u \in McpCallers : m_req'[t] > m_req[u])]_vars
    /\ [][\A t \in McpCallers :
             (RequestReturns(t) /\ m_resp'[t] # NoReply) => m_resp'[t].id = m_req[t]]_vars

(* after a restart a tool call got its reply: the ids went on from those of *)
(* the first subprocess                                                     *)
C27_Witness ==
    /\ gen = 2
    /\ m_pc["cron"] = "idle"
    /\ m_restarts["cron"] = 1
    /\ m_ret["cron"] = "text"
    /\ m_resp["cron"] = Reply(m_req["cron"], FALSE)
    /\ m_req["cron"] > 3

(* a reply bearing the id of the request of thread t was written by the     *)
(* subprocess and has not been returned                                     *)
Delivered(t) ==
    \/ \E i \in DOMAIN pipe : pipe[i].id = m_req[t]
    \/ \E i \in DOMAIN rbuf : rbuf[i].id = m_req[t]

(* C28: a reply bearing the request's id that the subprocess delivers       *)
(* before the timeout is what _request returns, also when notifications or  *)
(* replies with a stale id precede it; _request returns None only when no   *)
(* such reply was delivered.                                                *)
C28_DeliveredReplyReturned ==
    [][\A t \in McpCallers :
          RequestReturns(t) =>
              IF m_resp'[t] = NoReply THEN ~Delivered(t)
              ELSE m_resp'[t].id = m_req[t]]_vars

(* thread t can take a step, or waits for the lock whose holder can *)
CanProceed(t) ==
    \/ ENABLED CallerStep(t)
    \/ \E u \in McpCallers : u # t /\ m_lock = u /\ ENABLED CallerStep(u)

(* C29: a call_tool that found the provider dead never hangs, whatever the  *)
(* provider does: as long as the call has not returned, the calling thread  *)
(* has a step to take that does not wait for the provider.                  *)
C29_DeadProviderCallProceeds ==
    \A t \in McpCallers : (m_pc[t] # "idle" /\ m_alive[t] = "no") => CanProceed(t)

(* the start of the restart of thread t has just failed *)
RestartGivesUp(t) == m_pc[t] = "fail_stop" /\ m_pc'[t] # "fail_stop"

(* call_tool of thread t returns the routing error in this step *)
RoutingFails(t) == m_calls' = m_calls + 1 /\ m_ret'[t] = RouteError

(* C30: call_tool restarts at most once per call: never when the connection *)
(* was alive, once when it was not; a failed restart returns the restart    *)
(* error without forwarding the call; a name no provider matches returns    *)
(* the routing error and touches no connection.                             *)
C30_OneRestartPerCall ==
    /\ [](\A t \in McpCallers :
             /\ m_restarts[t] <= 1
             /\ m_alive[t] = "yes" => m_restarts[t] = 0
             /\ (m_alive[t] = "no" /\ m_pc[t] # "stop") => m_restarts[t] = 1
             /\ m_ret[t] = RestartError => (m_restarts[t] = 1 /\ ~m_forwarded[t]))
    /\ [][\A t \in McpCallers :
             RestartGivesUp(t) =>
                 (m_ret'[t] = RestartError /\ m_pc'[t] = "idle" /\ ~m_forwarded'[t])]_vars
    /\ [][\A t \in McpCallers :
             RoutingFails(t) =>
                 /\ m_restarts'[t] = 0
                 /\ ~m_forwarded'[t]
                 /\ UNCHANGED <<m_lock, m_blocked, request_id, proc, gen, p_exited, pipe,
                                rbuf, wire, init_ok>>]_vars

(* one call on the live connection was answered, the provider exited, and   *)
(* the restart of the next call failed                                      *)
C30_Witness ==
    /\ m_alive["main"] = "yes"
    /\ m_ret["main"] = "text"
    /\ m_alive["cron"] = "no"
    /\ m_restarts["cron"] = 1
    /\ m_ret["cron"] = RestartError
    /\ ~m_forwarded["cron"]

----------------------------------------------------------------------------
(* Claims on timeouts, start-up and the registry *)

(* the call of thread t ends because _request returned None *)
CallTimesOut(t) == m_pc[t] = "call_recv" /\ m_pc'[t] = "idle" /\ m_resp'[t] = NoReply

(* thread u enters MCPManager.call_tool with a name routed to the client,   *)
(* as the first call after the only call so far, which timed out            *)
NextCallAfterTimeout(u) ==
    /\ m_calls = 1
    /\ \E t \in McpCallers : m_ret[t] = TimeoutError
    /\ m_pc[u] = "idle"
    /\ m_pc'[u] # "idle"

(* C31: a tool call that gets no matching reply within the timeout returns  *)
(* the time-out error text, and the next call routed to the provider        *)
(* attempts a restart (stop, then start) before it sends its request.       *)
C31_TimeoutThenRestart ==
    [][/\ \A t \in McpCallers : CallTimesOut(t) => m_ret'[t] = TimeoutError
       /\ \A u \in McpCallers : NextCallAfterTimeout(u) => m_pc'[u] = "stop"]_vars

(* the names registered in self._clients *)
Registered == { g_clients[i] : i \in DOMAIN g_clients }

(* the entries start_all calls start() for *)
Startable(i) == g_servers[i].cfg.enabled /\ g_servers[i].cfg.command

C33_LiveToolsDistinctNames ==
    LET listed == get_openai_tools
    IN  /\ \A i \in DOMAIN listed :
              listed[i].server \in Registered /\ ClientAlive(listed[i].server)
        /\ \A i, j \in DOMAIN listed :
              (listed[i].server # listed[j].server \/ listed[i].tool # listed[j].tool)
                  => listed[i].name # listed[j].name

(* thread t writes its tools/call (RegSend) *)
RegRequestWritten(t) == g_call[t].at = "send" /\ g_call'[t].at = "recv"

(* C36: for a namespaced name that get_openai_tools listed for tool t of    *)
(* server p, call_tool sends its tools/call to the client registered as p   *)
(* and asks for the tool named t, whatever else is registered.              *)
C36_RoutingRoundTrip ==
    [][\A t \in McpCallers :
          RegRequestWritten(t) =>
              /\ g_call[t].server = g_call[t].pick.server
              /\ g_call[t].tool = g_call[t].pick.tool
              /\ g_lock'[g_call[t].pick.server] = t]_vars

(* the threads whose request on the client named n is written and not yet   *)
(* answered or timed out                                                    *)
InFlight(n) == { t \in McpCallers : g_call[t].at = "recv" /\ g_call[t].server = n }

(* C34: on one client at most one request is in flight, and it is the one   *)
(* of the thread that holds the lock of the client: while it is in flight   *)
(* no request is written to that client, and the requests of a restarted    *)
(* start() wait for the lock as well.  Requests on distinct clients overlap *)
(* (the witness).                                                           *)
C34_OneRequestInFlight ==
    /\ [](\A n \in RegServerNames :
             /\ Cardinality(InFlight(n)) <= 1
             /\ \A t \in InFlight(n) : g_lock[n] = t)
    /\ [][/\ \A n \in RegServerNames :
                (InFlight(n) # {} /\ InFlight(n)' = InFlight(n)) => g_sent'[n] = g_sent[n]
          /\ \A u \in McpCallers :
                (g_call[u].at = "handshake" /\ g_call'[u].at # "handshake")
                    => InFlight(g_call[u].server) = {}]_vars

(* two requests are in flight at once, on two clients *)
C34_Witness ==
    /\ g_call["main"].at = "recv"
    /\ g_call["cron"].at = "recv"
    /\ g_call["main"].server # g_call["cron"].server
    /\ g_lock[g_call["main"].server] = "main"
    /\ g_lock[g_call["cron"].server] = "cron"

(* C37: a client never owns more than one subprocess: every subprocess      *)
(* created by Popen in start() and not terminated by stop() is the one      *)
(* _proc refers to, also when several threads find the client dead and      *)
(* restart it at the same time.                                             *)
C37_NoOrphanSubprocess == spawned \subseteq {proc}

----------------------------------------------------------------------------
(* Claims on shutdown, the first context and the pairing of tool results *)

(* the loop of agent_respond goes into a pass after the first one *)
LaterRoundStarts == r_pc = "loop" /\ r_iteration >= 1 /\ ds_calls' = ds_calls + 1

(* the loop of _cron_loop goes into a pass *)
TickStarts == cl_pc = "top" /\ cl_pc' = "jobs"

(* C35: once _running is cleared the scheduler loop starts no pass, and an  *)
(* agent_respond call under way starts no further pass of its loop.         *)
C35_NothingStartsAfterShutdown ==
    [][(TickStarts \/ LaterRoundStarts) => running]_vars

(* the first _ds_request of the loop of agent_respond is made *)
FirstRequest == r_pc = "loop" /\ ds_calls = 0 /\ ds_calls' = 1

(* what load_context gives the pass of the loop that starts now *)
LoopContext == load_context(present[K_TG], T, cfg)

(* C38: the context of the first _ds_request of the loop ends with the      *)
(* user record agent_respond appended at its start, also when               *)
(* _compact_session has written a marker in this call.                      *)
C38_FirstContextHasInput ==
    [][FirstRequest =>
          /\ LoopContext # <<>>
          /\ LoopContext[Len(LoopContext)] = StripInternal(UserEntry)]_vars

(* message i of the context is a tool result whose tool_call_id no earlier  *)
(* assistant message of the context carries among its tool_calls            *)
Unrequested(ctx, i) ==
    /\ ctx[i].role = "tool"
    /\ ~\E j \in 1..(i - 1) :
          /\ ctx[j].role = "assistant"
          /\ \E k \in DOMAIN ctx[j].tool_calls : ctx[j].tool_calls[k].id = ctx[i].tool_call_id

(* C40: in every context load_context gives a pass of the loop of           *)
(* agent_respond, each tool result comes after the assistant message that   *)
(* carries the call with its id; the cut to max_messages leaves no tool     *)
(* result without it.                                                       *)
C40_ToolResultsKeepTheirCall ==
    r_pc = "loop" => \A i \in DOMAIN LoopContext : ~Unrequested(LoopContext, i)

----------------------------------------------------------------------------
(* Claims on maintenance against sessions in use *)

(* a step of _run_maintenance, _trim_session_entries included *)
MaintenanceStep ==
    /\ pc["cron"] \in {"maint_glob", "trim_lock", "trim_read", "trim_replace"}
    /\ pc'["cron"] # pc["cron"] \/ glob_todo' # glob_todo

(* a handler thread holds the flock it took for session key k *)
HeldByHandler(k) == \E t \in Threads \ {"cron"} : SessionKey(t) = k /\ lock_fd[t] # 0

(* C39: no step of the maintenance action deletes or rewrites the           *)
(* transcript file of a session, or removes its lock file, while a handler  *)
(* thread holds the lock of that session.                                   *)
C39_MaintenanceSparesHeldSessions ==
    [][MaintenanceStep =>
          \A k \in Keys :
              HeldByHandler(k) =>
                  /\ present'[k] = present[k]
                  /\ transcript'[k] = transcript[k]
                  /\ lock_ino'[k] = lock_ino[k]]_vars

====
